---- MODULE Spec2Model ----
(***************************************************************************)
(* GraphViz (anirxdh/GraphViz): the Mermaid parser, the force-directed     *)
(* layout and the canvas viewport, as state machines.                      *)
(*                                                                         *)
(*   SpecParser  parseMermaidDiagram, one step per line of the scan        *)
(*   SpecLayout  autoLayoutGraph, one step per iteration, run twice        *)
(*   SpecCanvas  GraphCanvas' viewport under wheel events                  *)
(*   SpecPointer GraphCanvas under wheel, mouse and edge-click events      *)
(*   SpecBezier  the sampling functions of bezierUtils                     *)
(*   SpecRendered GraphCanvas under the events its rendered elements       *)
(*               deliver, with new graph data arriving from a parse        *)
(*   SpecTiming  wheel and pan handlers of an earlier render               *)
(*   SpecForces  one force computation of autoLayoutGraph                  *)
(*                                                                         *)
(* Text is a sequence of one-character strings.  Layout coordinates are    *)
(* fixed-point integers in units of 1/Unit.  Viewport numbers are exact    *)
(* rationals <<numerator, denominator>>.                                   *)
(***************************************************************************)
EXTENDS Integers, Sequences, FiniteSets, TLC

VARIABLES
    input,          \* ghost: the catalogue indices of the raw lines of mermaidText
    mermaidText,    \* parseMermaidDiagram's argument
    lines,          \* the trimmed, non-empty lines
    i,              \* the loop index of the scan (1-based)
    nodes,          \* the Map id -> label, in insertion order
    edges,          \* the edges array
    pc,             \* "call" | "loop" | "done" | "TypeError" | "off"
    parseResult,    \* autoLayoutGraph's argument: [n, edges], nodes named 1..n
    positions,      \* the positions Map of the running call
    temp,           \* temp of the running call
    iter,           \* iter of the running call
    run,            \* ghost: 1 for the first call on parseResult, 2 for the second
    firstResult,    \* ghost: what the first call returned
    lpc,            \* "call" | "iterate" | "done" | "off"
    fc,             \* the pair of one force computation: [n, pos1, pos2]
    fcResult,       \* None, or Some([kind, dist, force]) of that computation
    viewport,       \* GraphCanvas' viewport state: [scale, offsetX, offsetY]
    rect,           \* svgRef.current.getBoundingClientRect(): [left, top]
    wheels,         \* ghost: the number of wheel events handled
    lastWheel,      \* ghost: the last wheel event and the viewport before it
    graphData,      \* the graphData prop: [nodes, edges]
    dimensions,     \* GraphCanvas' dimensions state: [width, height]
    selectedNodeId, \* None or Some(id)
    selectedEdgeId, \* None or Some(id)
    selectedControlPointId, \* None or Some(id)
    isDragging,     \* GraphCanvas' isDragging state
    dragStart,      \* GraphCanvas' dragStart state: [x, y] in client pixels
    dragNodeOffset, \* GraphCanvas' dragNodeOffset state: [x, y]
    isPanning,      \* GraphCanvas' isPanning state
    events,         \* ghost: the number of events handled
    gesture,        \* ghost: the last mouse-down, while only moves followed it
    closure,        \* what the handlers of the last render hold: [viewport, dragStart]
    reference,      \* ghost: the run with a render after every event: [viewport, dragStart]
    bz,             \* the arguments of a bezierUtils call
    bzResult        \* None, or Some(what the call returned)

parserVars == <<input, mermaidText, lines, i, nodes, edges, pc>>

forceVars == <<fc, fcResult>>

layoutVars == <<parseResult, positions, temp, iter, run, firstResult, lpc, forceVars>>

pointerVars == <<graphData, dimensions, selectedNodeId, selectedEdgeId,
                 selectedControlPointId, isDragging, dragStart, dragNodeOffset,
                 isPanning, events>>

timingVars == <<closure, reference>>

canvasVars == <<viewport, rect, wheels, lastWheel, pointerVars, gesture, timingVars>>

bezierVars == <<bz, bzResult>>

vars == <<parserVars, layoutVars, canvasVars, bezierVars>>

(***************************************************************************)
(* Bounds of the model.                                                    *)
(***************************************************************************)
MaxLines == 3
MaxNodes == 3
MaxLayoutEdges == 2
MaxWheels == 2
MaxEvents == 4
MaxSamples == 3

(***************************************************************************)
(* Strings.                                                                *)
(***************************************************************************)
None == <<>>
Some(x) == <<x>>

UpperSeq == <<"A", "B", "C", "D", "E", "F", "G", "H", "I", "J", "K", "L", "M",
              "N", "O", "P", "Q", "R", "S", "T", "U", "V", "W", "X", "Y", "Z">>
LowerSeq == <<"a", "b", "c", "d", "e", "f", "g", "h", "i", "j", "k", "l", "m",
              "n", "o", "p", "q", "r", "s", "t", "u", "v", "w", "x", "y", "z">>
Digits == {"0", "1", "2", "3", "4", "5", "6", "7", "8", "9"}

Range(s) == {s[k] : k \in DOMAIN s}

\* \w of the regular expressions
WordChars == Range(UpperSeq) \cup Range(LowerSeq) \cup Digits \cup {"_"}

\* \s of the regular expressions, and what String.prototype.trim removes
SpaceChars == {" ", "\t"}

\* the i flag: compare letters without case
Lower(c) ==
    IF \E k \in DOMAIN UpperSeq : UpperSeq[k] = c
    THEN LowerSeq[CHOOSE k \in DOMAIN UpperSeq : UpperSeq[k] = c]
    ELSE c

LowerStr(s) == [k \in DOMAIN s |-> Lower(s[k])]

\* the first index >= from whose character is not in set (Len(s) + 1 when none):
\* where a greedy class* stops
RECURSIVE SkipSet(_, _, _)
SkipSet(s, from, set) ==
    IF from > Len(s) \/ s[from] \notin set THEN from
    ELSE SkipSet(s, from + 1, set)

\* the first index >= from whose character is ch (Len(s) + 1 when none):
\* where a greedy [^ch]* stops
RECURSIVE SkipTo(_, _, _)
SkipTo(s, from, ch) ==
    IF from > Len(s) \/ s[from] = ch THEN from
    ELSE SkipTo(s, from + 1, ch)

\* s has the literal lit at index at
HasAt(s, at, lit) ==
    /\ at + Len(lit) - 1 <= Len(s)
    /\ SubSeq(s, at, at + Len(lit) - 1) = lit

StartsWith(s, lit) == HasAt(s, 1, lit)

\* the last index <= to whose character is not in set (0 when none)
RECURSIVE SkipSetBack(_, _, _)
SkipSetBack(s, to, set) ==
    IF to < 1 \/ s[to] \notin set THEN to
    ELSE SkipSetBack(s, to - 1, set)

\* String.prototype.trim
Trim(s) == SubSeq(s, SkipSet(s, 1, SpaceChars), SkipSetBack(s, Len(s), SpaceChars))

\* String.prototype.split('\n'): always at least one piece
RECURSIVE SplitFrom(_, _)
SplitFrom(s, from) ==
    LET nl == SkipTo(s, from, "\n")
    IN  IF nl > Len(s) THEN <<SubSeq(s, from, Len(s))>>
        ELSE <<SubSeq(s, from, nl - 1)>> \o SplitFrom(s, nl + 1)

Split(s) == SplitFrom(s, 1)

\* Array.prototype.join('\n')
RECURSIVE Join(_)
Join(ls) ==
    IF ls = <<>> THEN <<>>
    ELSE IF Len(ls) = 1 THEN ls[1]
    ELSE ls[1] \o <<"\n">> \o Join(Tail(ls))

(***************************************************************************)
(* The catalogue the input lines are drawn from: the raw line, and what    *)
(* Mermaid syntax and the parser's documentation say it is.                *)
(*   class "blank" | "comment" | "header" | "node" | "edge" | "doc" |       *)
(*         "other"                                                         *)
(***************************************************************************)
sA == <<"A">>
sB == <<"B">>
sC == <<"C">>
sD == <<"D">>
sE == <<"E">>

Line(raw, class) == [raw |-> raw, class |-> class]
NodeLine(raw, id, label) == [raw |-> raw, class |-> "node", id |-> id, label |-> label]
EdgeLine(raw, source, target, type, label) ==
    [raw |-> raw, class |-> "edge", source |-> source, target |-> target,
     type |-> type, label |-> label]

Catalogue == <<
    \* 1  " \t"
    Line(<<" ", "\t">>, "blank"),
    \* 2  "graph TD"
    Line(<<"g", "r", "a", "p", "h", " ", "T", "D">>, "header"),
    \* 3  "%% c"
    Line(<<"%", "%", " ", "c">>, "comment"),
    \* 4  "A[Alpha]"
    NodeLine(<<"A", "[", "A", "l", "p", "h", "a", "]">>, sA, <<"A", "l", "p", "h", "a">>),
    \* 5  "B(Beta)"
    NodeLine(<<"B", "(", "B", "e", "t", "a", ")">>, sB, <<"B", "e", "t", "a">>),
    \* 6  "A"
    NodeLine(<<"A">>, sA, sA),
    \* 7  "C{ c }"
    NodeLine(<<"C", "{", " ", "c", " ", "}">>, sC, <<"c">>),
    \* 8  "  A --> B"
    EdgeLine(<<" ", " ", "A", " ", "-", "-", ">", " ", "B">>, sA, sB, "directed", None),
    \* 9  "B <--> C"
    EdgeLine(<<"B", " ", "<", "-", "-", ">", " ", "C">>, sB, sC, "bidirected", None),
    \* 10 "C ---|0.5| D"
    EdgeLine(<<"C", " ", "-", "-", "-", "|", "0", ".", "5", "|", " ", "D">>,
             sC, sD, "undirected", Some(<<"0", ".", "5">>)),
    \* 11 "A -->| x |B"
    EdgeLine(<<"A", " ", "-", "-", ">", "|", " ", "x", " ", "|", "B">>,
             sA, sB, "directed", Some(<<"x">>)),
    \* 12 "B -->| | A": the label segment holds no text
    EdgeLine(<<"B", " ", "-", "-", ">", "|", " ", "|", " ", "A">>, sB, sA, "directed", None),
    \* 13 "D --> E|0.75|": the form of the documentation comment
    Line(<<"D", " ", "-", "-", ">", " ", "E", "|", "0", ".", "7", "5", "|">>, "doc"),
    \* 14 "A -> B"
    Line(<<"A", " ", "-", ">", " ", "B">>, "other")
>>

DocEdge == [source |-> sD, target |-> sE, type |-> "directed",
            label |-> Some(<<"0", ".", "7", "5">>)]

RECURSIVE SeqsUpTo(_, _)
SeqsUpTo(S, n) ==
    IF n = 0 THEN {<<>>}
    ELSE LET shorter == SeqsUpTo(S, n - 1)
         IN  shorter \cup {Append(s, x) : s \in {t \in shorter : Len(t) = n - 1}, x \in S}

Inputs == SeqsUpTo(DOMAIN Catalogue, MaxLines)

TextOf(inp) == Join([k \in DOMAIN inp |-> Catalogue[inp[k]].raw])

(***************************************************************************)
(* parseMermaidDiagram                                                     *)
(***************************************************************************)
\* mermaidText.split('\n').map(line => line.trim()).filter(line => line.length > 0)
SplitLines(text) ==
    LET trimmed == [k \in DOMAIN Split(text) |-> Trim(Split(text)[k])]
    IN  SelectSeq(trimmed, LAMBDA l : Len(l) > 0)

\* /^graph\s+(TD|LR|TB|RL|BT)/i
Directions == {<<"t", "d">>, <<"l", "r">>, <<"t", "b">>, <<"r", "l">>, <<"b", "t">>}

MatchGraphDecl(line) ==
    LET l  == LowerStr(line)
        sp == SkipSet(l, 6, SpaceChars)
    IN  /\ StartsWith(l, <<"g", "r", "a", "p", "h">>)
        /\ sp > 6
        /\ \E d \in Directions : HasAt(l, sp, d)

StartIndex(ls) == IF MatchGraphDecl(ls[1]) THEN 2 ELSE 1

NoMatch == [matched |-> FALSE]

\* /^(\w+)\s*ARROW\s*(?:\|([^|]+)\|)?\s*(\w+)$/ : groups 1, 2 (None when the
\* optional segment did not take part) and 3
MatchEdge(line, arrow) ==
    LET w1    == SkipSet(line, 1, WordChars)
        a     == SkipSet(line, w1, SpaceChars)
        s2    == SkipSet(line, a + Len(arrow), SpaceChars)
        bar   == SkipTo(line, s2 + 1, "|")
        seg   == /\ s2 <= Len(line) /\ line[s2] = "|"
                 /\ bar <= Len(line) /\ bar > s2 + 1
        after == IF seg THEN bar + 1 ELSE s2
        w3    == SkipSet(line, after, SpaceChars)
        end   == SkipSet(line, w3, WordChars)
    IN  IF /\ w1 > 1
           /\ HasAt(line, a, arrow)
           /\ end > w3
           /\ end = Len(line) + 1
        THEN [matched |-> TRUE,
              g1 |-> SubSeq(line, 1, w1 - 1),
              g2 |-> IF seg THEN Some(SubSeq(line, s2 + 1, bar - 1)) ELSE None,
              g3 |-> SubSeq(line, w3, end - 1)]
        ELSE NoMatch

\* the edgePatterns array, in its order
EdgePatterns == <<
    [arrow |-> <<"<", "-", "-", ">">>, type |-> "bidirected"],
    [arrow |-> <<"-", "-", ">">>,      type |-> "directed"],
    [arrow |-> <<"-", "-", "-">>,      type |-> "undirected"] >>

\* the first pattern of edgePatterns that matches (0 when none)
FirstEdgePattern(line) ==
    IF \E p \in DOMAIN EdgePatterns : MatchEdge(line, EdgePatterns[p].arrow).matched
    THEN CHOOSE p \in DOMAIN EdgePatterns :
            /\ MatchEdge(line, EdgePatterns[p].arrow).matched
            /\ \A q \in 1..(p - 1) : ~MatchEdge(line, EdgePatterns[q].arrow).matched
    ELSE 0

\* mutant: the label segment taken as written, untrimmed
EdgeLabelUntrimmed(g2) ==
    IF g2 = None THEN None
    ELSE IF g2[1] = <<>> THEN None
    ELSE Some(g2[1])

\* edgeMatch[2]?.trim(), then label || undefined
EdgeLabel(g2) ==
    IF g2 = None THEN None
    ELSE IF Trim(g2[1]) = <<>> THEN None
    ELSE Some(Trim(g2[1]))

\* the object pushed on edges
EdgeOf(line) ==
    LET p == FirstEdgePattern(line)
        m == MatchEdge(line, EdgePatterns[p].arrow)
    IN  [source |-> m.g1, target |-> m.g3, type |-> EdgePatterns[p].type,
         label |-> EdgeLabel(m.g2)]

\* /^(\w+)\[([^\]]+)\]$/ and its round and curly forms
MatchBracket(line, open, close) ==
    LET w1 == SkipSet(line, 1, WordChars)
        cl == SkipTo(line, w1 + 1, close)
    IN  IF /\ w1 > 1
           /\ HasAt(line, w1, <<open>>)
           /\ cl > w1 + 1
           /\ cl = Len(line)
        THEN [matched |-> TRUE, g1 |-> SubSeq(line, 1, w1 - 1),
              g2 |-> Some(SubSeq(line, w1 + 1, cl - 1))]
        ELSE NoMatch

\* /^(\w+)$/
MatchBare(line) ==
    IF Len(line) > 0 /\ SkipSet(line, 1, WordChars) = Len(line) + 1
    THEN [matched |-> TRUE, g1 |-> line, g2 |-> None]
    ELSE NoMatch

\* the nodePatterns array, in its order
NodePatterns(line) == <<
    MatchBracket(line, "[", "]"),
    MatchBracket(line, "(", ")"),
    MatchBracket(line, "{", "}"),
    MatchBare(line) >>

FirstNodePattern(line) ==
    LET ms == NodePatterns(line)
    IN  IF \E p \in DOMAIN ms : ms[p].matched
        THEN CHOOSE p \in DOMAIN ms :
                ms[p].matched /\ \A q \in 1..(p - 1) : ~ms[q].matched
        ELSE 0

\* nodeMatch[2] ? nodeMatch[2].trim() : id
NodeLabel(m) == IF m.g2 = None \/ m.g2[1] = <<>> THEN m.g1 ELSE Trim(m.g2[1])

\* Map.prototype.has
MapHas(map, id) == \E k \in DOMAIN map : map[k].id = id

MapGet(map, id) == map[CHOOSE k \in DOMAIN map : map[k].id = id].label

\* mutant: a present key is deleted and set again, so it goes last
MapSetReinsert(map, id, label) ==
    Append(SelectSeq(map, LAMBDA e : e.id # id), [id |-> id, label |-> label])

\* Map.prototype.set: a present key keeps its place, a new key goes last
MapSet(map, id, label) ==
    IF MapHas(map, id)
    THEN [k \in DOMAIN map |-> IF map[k].id = id THEN [id |-> id, label |-> label] ELSE map[k]]
    ELSE Append(map, [id |-> id, label |-> label])

\* mutant: the endpoint is set without asking nodes.has
EnsureNodeOverwrite(map, id) ==
    IF MapHas(map, id)
    THEN [k \in DOMAIN map |-> IF map[k].id = id THEN [id |-> id, label |-> id] ELSE map[k]]
    ELSE Append(map, [id |-> id, label |-> id])

\* mutant: the endpoint of an edge is not added to the map
EnsureNodeSkip(map, id) == map

\* if (!nodes.has(id)) nodes.set(id, id)
EnsureNode(map, id) == IF MapHas(map, id) THEN map ELSE MapSet(map, id, id)

\* mutant: a declaration of an id already in the map is ignored
DeclareNodeKeepFirst(map, line) ==
    LET m == NodePatterns(line)[FirstNodePattern(line)]
    IN  IF MapHas(map, m.g1) THEN map
        ELSE Append(map, [id |-> m.g1, label |-> NodeLabel(m)])

\* nodes.set(id, label) of a node-definition line
DeclareNode(map, line) ==
    LET m == NodePatterns(line)[FirstNodePattern(line)]
    IN  MapSet(map, m.g1, NodeLabel(m))

IsComment(line) == StartsWith(line, <<"%", "%">>)
IsEdge(line) == FirstEdgePattern(line) # 0
IsNode(line) == FirstNodePattern(line) # 0

InitParser ==
    /\ input \in Inputs
    /\ mermaidText = TextOf(input)
    /\ lines = <<>>
    /\ i = 0
    /\ nodes = <<>>
    /\ edges = <<>>
    /\ pc = "call"

\* lines 19-30, when lines[0] exists
ParseBegin ==
    /\ pc = "call"
    /\ SplitLines(mermaidText) # <<>>
    /\ lines' = SplitLines(mermaidText)
    /\ i' = StartIndex(lines')
    /\ pc' = "loop"
    /\ UNCHANGED <<input, mermaidText, nodes, edges>>
    /\ UNCHANGED <<layoutVars, canvasVars, bezierVars>>

\* line 30 on an empty lines array: lines[0] is undefined and .match throws
ParseThrow ==
    /\ pc = "call"
    /\ SplitLines(mermaidText) = <<>>
    /\ lines' = SplitLines(mermaidText)
    /\ pc' = "TypeError"
    /\ UNCHANGED <<input, mermaidText, i, nodes, edges>>
    /\ UNCHANGED <<layoutVars, canvasVars, bezierVars>>

InLoop == pc = "loop" /\ i <= Len(lines)

\* lines 36-38
ParseComment ==
    /\ InLoop
    /\ IsComment(lines[i])
    /\ i' = i + 1
    /\ UNCHANGED <<input, mermaidText, lines, nodes, edges, pc>>
    /\ UNCHANGED <<layoutVars, canvasVars, bezierVars>>

\* lines 50-80
ParseEdge ==
    /\ InLoop
    /\ ~IsComment(lines[i])
    /\ IsEdge(lines[i])
    /\ LET e == EdgeOf(lines[i])
       IN  /\ nodes' = EnsureNode(EnsureNode(nodes, e.source), e.target)
           /\ edges' = Append(edges, e)
    /\ i' = i + 1
    /\ UNCHANGED <<input, mermaidText, lines, pc>>
    /\ UNCHANGED <<layoutVars, canvasVars, bezierVars>>

\* lines 82-98, a pattern matched
ParseNode ==
    /\ InLoop
    /\ ~IsComment(lines[i])
    /\ ~IsEdge(lines[i])
    /\ IsNode(lines[i])
    /\ nodes' = DeclareNode(nodes, lines[i])
    /\ i' = i + 1
    /\ UNCHANGED <<input, mermaidText, lines, edges, pc>>
    /\ UNCHANGED <<layoutVars, canvasVars, bezierVars>>

\* mutant: a line no pattern matches is raised as an error
ParseSkipRaise ==
    /\ pc = "loop" /\ i <= Len(lines)
    /\ ~IsComment(lines[i])
    /\ ~IsEdge(lines[i])
    /\ ~IsNode(lines[i])
    /\ pc' = "ParseError"
    /\ UNCHANGED <<input, mermaidText, lines, i, nodes, edges>>
    /\ UNCHANGED <<layoutVars, canvasVars, bezierVars>>

\* lines 82-98, no pattern matched: the loop goes on
ParseSkip ==
    /\ InLoop
    /\ ~IsComment(lines[i])
    /\ ~IsEdge(lines[i])
    /\ ~IsNode(lines[i])
    /\ i' = i + 1
    /\ UNCHANGED <<input, mermaidText, lines, nodes, edges, pc>>
    /\ UNCHANGED <<layoutVars, canvasVars, bezierVars>>

\* lines 101-104
ParseReturn ==
    /\ pc = "loop"
    /\ i > Len(lines)
    /\ pc' = "done"
    /\ UNCHANGED <<input, mermaidText, lines, i, nodes, edges>>
    /\ UNCHANGED <<layoutVars, canvasVars, bezierVars>>

NextParser ==
    \/ ParseBegin
    \/ ParseThrow
    \/ ParseComment
    \/ ParseEdge
    \/ ParseNode
    \/ ParseSkip
    \/ ParseReturn

\* the parser's variables while another component is looked at
ParserOff ==
    [input |-> <<>>, mermaidText |-> <<>>, lines |-> <<>>, i |-> 0, nodes |-> <<>>,
     edges |-> <<>>, pc |-> "off"]

(***************************************************************************)
(* Fixed-point numbers of the layout: the integer v stands for v / Unit.   *)
(***************************************************************************)
Unit == 10000

Abs(a) == IF a < 0 THEN -a ELSE a
Max(a, b) == IF a >= b THEN a ELSE b
Min(a, b) == IF a <= b THEN a ELSE b

\* a / b rounded toward zero (b > 0)
Quot(a, b) == IF a >= 0 THEN a \div b ELSE -((-a) \div b)

\* floor of the square root, by Newton's iteration
RECURSIVE SqrtIter(_, _)
SqrtIter(n, x) ==
    LET y == (x + n \div x) \div 2
    IN  IF y >= x THEN x ELSE SqrtIter(n, y)

SqrtStart == 46341

ISqrt(n) == IF n <= 0 THEN 0 ELSE SqrtIter(n, Min(n, SqrtStart))

\* Math.sqrt(a * a + b * b); large arguments are scaled down before squaring
SqrtLimit == 30000

Hypot(a, b) ==
    LET m == Max(Abs(a), Abs(b))
        s == m \div SqrtLimit + 1
    IN  s * ISqrt(Quot(a, s) * Quot(a, s) + Quot(b, s) * Quot(b, s))

\* (a / b) * c; a large a is scaled down together with b before multiplying
MulLimit == 1000000

MulDiv(a, c, b) ==
    LET s == Abs(a) \div MulLimit + 1
    IN  Quot(Quot(a, s) * c, Max(Quot(b, s), 1))

\* Unit * <<Math.cos(angle), Math.sin(angle)>> for angle = (i / n) * 2 * Math.PI,
\* at CosSin[n][i + 1]
CosSin == <<
    <<<<10000, 0>>>>,
    <<<<10000, 0>>, <<-10000, 0>>>>,
    <<<<10000, 0>>, <<-5000, 8660>>, <<-5000, -8660>>>>,
    <<<<10000, 0>>, <<0, 10000>>, <<-10000, 0>>, <<0, -10000>>>>,
    <<<<10000, 0>>, <<3090, 9511>>, <<-8090, 5878>>, <<-8090, -5878>>, <<3090, -9511>>>>,
    <<<<10000, 0>>, <<5000, 8660>>, <<-5000, 8660>>, <<-10000, 0>>, <<-5000, -8660>>,
      <<5000, -8660>>>> >>

(***************************************************************************)
(* autoLayoutGraph                                                         *)
(***************************************************************************)
iterations == 50
radius == (3 * Unit) \div 10
temperature == Unit \div 10
coolingPercent == 95
MinDist == Unit \div 100
BoundLo == Unit \div 10
BoundHi == (9 * Unit) \div 10

NodeIds(g) == 1..g.n

\* the structural graphs the layout is called on: duplicate edges and
\* self-loops included
Graphs ==
    {[n |-> n, edges |-> es] :
        n \in 0..MaxNodes,
        es \in SeqsUpTo((1..MaxNodes) \X (1..MaxNodes), MaxLayoutEdges)}

WellFormed(g) ==
    \A k \in DOMAIN g.edges : g.edges[k][1] \in NodeIds(g) /\ g.edges[k][2] \in NodeIds(g)

\* lines 125-133: the circle of radius 0.3 around (0.5, 0.5), in node order
InitialPositions(g) ==
    [id \in NodeIds(g) |->
        [x |-> Unit \div 2 + Quot(radius * CosSin[g.n][id][1], Unit),
         y |-> Unit \div 2 + Quot(radius * CosSin[g.n][id][2], Unit)]]

\* k = Math.sqrt(1.0 / nodes.length)
OptimalDistance(g) == ISqrt((Unit * Unit) \div g.n)

\* Math.sqrt(dx * dx + dy * dy) || 0.01
Dist(dx, dy) == LET h == Hypot(dx, dy) IN IF h = 0 THEN MinDist ELSE h

\* lines 158-164: fx, fy of the pair (pos1, pos2)
Repulsion(k, pos1, pos2) ==
    LET dx   == pos1.x - pos2.x
        dy   == pos1.y - pos2.y
        dist == Dist(dx, dy)
        repulsion == (((k * k) \div Unit) * Unit) \div dist
    IN  [x |-> Quot(dx * repulsion, dist), y |-> Quot(dy * repulsion, dist)]

\* lines 182-188: fx, fy of the edge from pos1 to pos2
Attraction(k, pos1, pos2) ==
    LET dx   == pos2.x - pos1.x
        dy   == pos2.y - pos1.y
        dist == Dist(dx, dy)
        attraction == (dist * dist) \div k
    IN  [x |-> Quot(dx * attraction, dist), y |-> Quot(dy * attraction, dist)]

Zero == [x |-> 0, y |-> 0]

\* no force computation is looked at
NoForce == [n |-> 0, pos1 |-> Zero, pos2 |-> Zero]
Plus(u, v) == [x |-> u.x + v.x, y |-> u.y + v.y]
Minus(u, v) == [x |-> u.x - v.x, y |-> u.y - v.y]

RECURSIVE SumSeq(_)
SumSeq(s) == IF s = <<>> THEN Zero ELSE Plus(s[1], SumSeq(Tail(s)))

\* lines 146-196: the forces Map after the pairs loop and the edges loop; an
\* edge with an endpoint that has no position is passed over
Forces(g, pos) ==
    LET k   == OptimalDistance(g)
        rep == [a \in NodeIds(g), b \in NodeIds(g) |->
                   IF a < b THEN Repulsion(k, pos[a], pos[b]) ELSE Zero]
        att == [e \in DOMAIN g.edges |->
                   IF g.edges[e][1] \in NodeIds(g) /\ g.edges[e][2] \in NodeIds(g)
                   THEN Attraction(k, pos[g.edges[e][1]], pos[g.edges[e][2]])
                   ELSE Zero]
    IN  [id \in NodeIds(g) |->
            Plus(SumSeq([b \in 1..g.n |-> Minus(rep[id, b], rep[b, id])]),
                 SumSeq([e \in DOMAIN g.edges |->
                            Minus(IF g.edges[e][1] = id THEN att[e] ELSE Zero,
                                  IF g.edges[e][2] = id THEN att[e] ELSE Zero)]))]

\* mutant: the position is left where the forces put it
NoClamp(v) == v

\* Math.max(0.1, Math.min(0.9, v))
Clamp(v) == Max(BoundLo, Min(BoundHi, v))

\* lines 199-212: one node's new position
Displace(p, force, t) ==
    LET h            == Hypot(force.x, force.y)
        magnitude    == IF h = 0 THEN MinDist ELSE h
        displacement == Min(magnitude, t)
    IN  [x |-> Clamp(p.x + MulDiv(force.x, displacement, magnitude)),
         y |-> Clamp(p.y + MulDiv(force.y, displacement, magnitude))]

\* lines 143-212: one iteration; every force is computed from the positions
\* the iteration started with
Iterate(g, pos, t) ==
    LET forces == Forces(g, pos)
    IN  [id \in NodeIds(g) |-> Displace(pos[id], forces[id], t)]

\* temp *= cooling
Cool(t) == (t * coolingPercent) \div 100

InitLayout ==
    /\ parseResult \in {g \in Graphs : WellFormed(g)}
    /\ positions = <<>>
    /\ temp = 0
    /\ iter = 0
    /\ run = 1
    /\ firstResult = <<>>
    /\ lpc = "call"
    /\ fc = NoForce
    /\ fcResult = None

\* lines 119-121
LayoutEmpty ==
    /\ lpc = "call"
    /\ parseResult.n = 0
    /\ positions' = <<>>
    /\ lpc' = "done"
    /\ firstResult' = IF run = 1 THEN <<>> ELSE firstResult
    /\ UNCHANGED <<parseResult, temp, iter, run>>
    /\ UNCHANGED forceVars
    /\ UNCHANGED <<parserVars, canvasVars, bezierVars>>

\* mutant: the temperature is kept from the call before
LayoutStartWarm ==
    /\ lpc = "call"
    /\ parseResult.n > 0
    /\ positions' = InitialPositions(parseResult)
    /\ temp' = IF run = 1 THEN temperature ELSE temp
    /\ iter' = 0
    /\ lpc' = "iterate"
    /\ UNCHANGED <<parseResult, run, firstResult>>
    /\ UNCHANGED forceVars
    /\ UNCHANGED <<parserVars, canvasVars, bezierVars>>

\* lines 123-141
LayoutStart ==
    /\ lpc = "call"
    /\ parseResult.n > 0
    /\ positions' = InitialPositions(parseResult)
    /\ temp' = temperature
    /\ iter' = 0
    /\ lpc' = "iterate"
    /\ UNCHANGED <<parseResult, run, firstResult>>
    /\ UNCHANGED forceVars
    /\ UNCHANGED <<parserVars, canvasVars, bezierVars>>

\* lines 142-215
LayoutIterate ==
    /\ lpc = "iterate"
    /\ iter < iterations
    /\ positions' = Iterate(parseResult, positions, temp)
    /\ temp' = Cool(temp)
    /\ iter' = iter + 1
    /\ UNCHANGED <<parseResult, run, firstResult, lpc>>
    /\ UNCHANGED forceVars
    /\ UNCHANGED <<parserVars, canvasVars, bezierVars>>

\* lines 217-222
LayoutReturn ==
    /\ lpc = "iterate"
    /\ iter = iterations
    /\ lpc' = "done"
    /\ firstResult' = IF run = 1 THEN positions ELSE firstResult
    /\ UNCHANGED <<parseResult, positions, temp, iter, run>>
    /\ UNCHANGED forceVars
    /\ UNCHANGED <<parserVars, canvasVars, bezierVars>>

\* the caller calls autoLayoutGraph on the same parse result again
LayoutAgain ==
    /\ lpc = "done"
    /\ run = 1
    /\ run' = 2
    /\ lpc' = "call"
    /\ UNCHANGED <<parseResult, positions, temp, iter, firstResult>>
    /\ UNCHANGED forceVars
    /\ UNCHANGED <<parserVars, canvasVars, bezierVars>>

NextLayout ==
    \/ LayoutEmpty
    \/ LayoutStart
    \/ LayoutIterate
    \/ LayoutReturn
    \/ LayoutAgain

\* the layout's variables while another component is looked at
LayoutOff ==
    [parseResult |-> [n |-> 0, edges |-> <<>>], positions |-> <<>>, temp |-> 0,
     iter |-> 0, run |-> 0, firstResult |-> <<>>, lpc |-> "off",
     fc |-> NoForce, fcResult |-> None]

(***************************************************************************)
(* Exact rationals <<numerator, denominator>>, in lowest terms with a       *)
(* positive denominator.                                                   *)
(***************************************************************************)
RECURSIVE GCD(_, _)
GCD(a, b) == IF b = 0 THEN a ELSE GCD(b, a % b)

Norm(n, d) ==
    LET g == GCD(Abs(n), Abs(d))
    IN  IF d > 0 THEN <<n \div g, d \div g>> ELSE <<(-n) \div g, (-d) \div g>>

Rat(n) == <<n, 1>>

RAdd(p, q) ==
    LET g == GCD(p[2], q[2])
    IN  Norm(p[1] * (q[2] \div g) + q[1] * (p[2] \div g), (p[2] \div g) * q[2])

RNeg(p) == <<-p[1], p[2]>>

RSub(p, q) == RAdd(p, RNeg(q))

RMul(p, q) ==
    LET g1 == GCD(Abs(p[1]), q[2])
        g2 == GCD(Abs(q[1]), p[2])
    IN  Norm((p[1] \div g1) * (q[1] \div g2), (p[2] \div g2) * (q[2] \div g1))

\* q # 0
RDiv(p, q) == RMul(p, IF q[1] > 0 THEN <<q[2], q[1]>> ELSE <<-q[2], -q[1]>>)

RLeq(p, q) == RSub(q, p)[1] >= 0

RMin(p, q) == IF RLeq(p, q) THEN p ELSE q
RMax(p, q) == IF RLeq(p, q) THEN q ELSE p

(***************************************************************************)
(* GraphCanvas: the viewport                                               *)
(***************************************************************************)
\* Math.sign
Sign(v) == IF v > 0 THEN 1 ELSE IF v < 0 THEN -1 ELSE 0

\* Math.exp(delta * zoomIntensity) for delta in {-1, 0, 1}: 21/19 stands for
\* e^0.1 = 1.10517..., and 19/21 for e^-0.1
Zoom(delta) ==
    IF delta > 0 THEN <<21, 19>> ELSE IF delta < 0 THEN <<19, 21>> ELSE Rat(1)

MinScale == <<1, 10>>
MaxScale == Rat(10)

\* screenToSVG, with the viewport v its closure holds
screenToSVG(v, r, screenX, screenY) ==
    [x |-> RDiv(RSub(Rat(screenX - r.left), v.offsetX), v.scale),
     y |-> RDiv(RSub(Rat(screenY - r.top), v.offsetY), v.scale)]

\* mutant: the group is scaled after it is translated
renderTransformScaleLast(v, r, p) ==
    [x |-> RAdd(Rat(r.left), RMul(RAdd(p.x, v.offsetX), v.scale)),
     y |-> RAdd(Rat(r.top), RMul(RAdd(p.y, v.offsetY), v.scale))]

\* line 268, translate(offsetX, offsetY) scale(scale) on the group inside the
\* svg element at r: where the window shows the point p of the group
renderTransform(v, r, p) ==
    [x |-> RAdd(Rat(r.left), RAdd(v.offsetX, RMul(p.x, v.scale))),
     y |-> RAdd(Rat(r.top), RAdd(v.offsetY, RMul(p.y, v.scale)))]

\* mutant: the scale is not clamped
WheelUpdateFree(prev, mousePos, deltaY) ==
    LET zoom      == Zoom(-Sign(deltaY))
        newScale  == RMul(prev.scale, zoom)
        scaleDiff == RSub(newScale, prev.scale)
    IN  [scale   |-> newScale,
         offsetX |-> RSub(prev.offsetX, RMul(mousePos.x, scaleDiff)),
         offsetY |-> RSub(prev.offsetY, RMul(mousePos.y, scaleDiff))]

\* mutant: scaleDiff taken from the scale before clamping
WheelUpdateUnclamped(prev, mousePos, deltaY) ==
    LET zoom      == Zoom(-Sign(deltaY))
        newScale  == RMax(MinScale, RMin(MaxScale, RMul(prev.scale, zoom)))
        scaleDiff == RSub(RMul(prev.scale, zoom), prev.scale)
    IN  [scale   |-> newScale,
         offsetX |-> RSub(prev.offsetX, RMul(mousePos.x, scaleDiff)),
         offsetY |-> RSub(prev.offsetY, RMul(mousePos.y, scaleDiff))]

\* lines 76-91: the updater handleWheel gives setViewport
WheelUpdate(prev, mousePos, deltaY) ==
    LET zoom      == Zoom(-Sign(deltaY))
        newScale  == RMax(MinScale, RMin(MaxScale, RMul(prev.scale, zoom)))
        scaleDiff == RSub(newScale, prev.scale)
    IN  [scale   |-> newScale,
         offsetX |-> RSub(prev.offsetX, RMul(mousePos.x, scaleDiff)),
         offsetY |-> RSub(prev.offsetY, RMul(mousePos.y, scaleDiff))]

\* the viewport of lines 23-27
IdentityViewport == [scale |-> Rat(1), offsetX |-> Rat(0), offsetY |-> Rat(0)]

\* the viewports a run starts from: the identity, and viewports with a scale
\* at and next to each end of [0.1, 10], panned or not
StartScales == {MinScale, <<21, 200>>, Rat(1), <<19, 2>>, MaxScale}
StartOffsets == {<<Rat(0), Rat(0)>>, <<Rat(30), Rat(-20)>>}

StartViewports ==
    {[scale |-> sc, offsetX |-> o[1], offsetY |-> o[2]] :
        sc \in StartScales, o \in StartOffsets}

\* where the svg element lies in the window
Rects == {[left |-> 0, top |-> 0], [left |-> 320, top |-> 0]}

\* clientX, clientY of the events
Cursors == {<<320, 0>>, <<520, 300>>, <<1120, 600>>}

\* deltaY of the wheel events
DeltaYs == {-100, 0, 100}

\* line 22: the dimensions of a container 800 wide and 600 high
DefaultDimensions == [width |-> 800, height |-> 600]

\* `${edgeId}-cp-0` (line 237, and EdgeRenderer line 381)
ControlPointId(edgeId) == edgeId \o "-cp-0"

\* a node and an edge, with the fields the canvas reads and writes
Node(id, x, y) == [id |-> id, x |-> x, y |-> y]
Edge(id, source, target) ==
    [id |-> id, source |-> source, target |-> target, controlPoints |-> <<>>]

\* graph data as handleParseMermaid builds it (ControlPanel lines 33-55):
\* laid-out nodes, edges named edge-<index>, every controlPoints empty
StartGraph ==
    [nodes |-> <<Node("A", <<1, 4>>, <<1, 4>>), Node("B", <<3, 4>>, <<1, 2>>)>>,
     edges |-> <<Edge("edge-0", "A", "B"), Edge("edge-1", "B", "A")>>]

\* lines 34-35
Origin == [x |-> 0, y |-> 0]
ZeroOffset == [x |-> Rat(0), y |-> Rat(0)]

\* closure and reference while the component renders after every event
NoTiming == [viewport |-> IdentityViewport, dragStart |-> Origin]

\* no mouse-down yet, or another event than a move since the last one
NoGesture ==
    [kind |-> "none", id |-> "", p0 |-> Origin, p |-> Origin, moved |-> FALSE,
     graphData |-> [nodes |-> <<>>, edges |-> <<>>], viewport |-> IdentityViewport]

\* the value of gesture in the specifications that keep no history
Untracked == [NoGesture EXCEPT !.kind = "untracked"]

\* the next value of gesture, g where the history is kept
Track(g) == IF gesture.kind = "untracked" THEN gesture ELSE g

\* the mouse-down at clientX, clientY on the node or control point id (or on
\* the background), with the graph data and the viewport it met
Gesture(kind, id, clientX, clientY) ==
    [kind |-> kind, id |-> id, p0 |-> [x |-> clientX, y |-> clientY],
     p |-> [x |-> clientX, y |-> clientY], moved |-> FALSE,
     graphData |-> graphData, viewport |-> viewport]

InitCanvas ==
    /\ viewport \in StartViewports
    /\ rect \in Rects
    /\ wheels = 0
    /\ lastWheel = None
    /\ graphData = StartGraph
    /\ dimensions = DefaultDimensions
    /\ selectedNodeId = None
    /\ selectedEdgeId = None
    /\ selectedControlPointId = None
    /\ isDragging = FALSE
    /\ dragStart = Origin
    /\ dragNodeOffset = ZeroOffset
    /\ isPanning = FALSE
    /\ events = 0
    /\ gesture = Untracked
    /\ closure = NoTiming
    /\ reference = NoTiming

\* lines 73-92, the component rendered since the last event: the closure of
\* screenToSVG holds the current viewport
handleWheel(clientX, clientY, deltaY) ==
    /\ wheels < MaxWheels
    /\ events < MaxEvents
    /\ viewport' = WheelUpdate(viewport, screenToSVG(viewport, rect, clientX, clientY),
                               deltaY)
    /\ wheels' = wheels + 1
    /\ lastWheel' = Some([before |-> viewport, clientX |-> clientX,
                          clientY |-> clientY, deltaY |-> deltaY])
    /\ events' = events + 1
    /\ UNCHANGED <<rect, graphData, dimensions, selectedNodeId, selectedEdgeId,
                   selectedControlPointId, isDragging, dragStart, dragNodeOffset,
                   isPanning>>
    /\ gesture' = Track(NoGesture)
    /\ UNCHANGED timingVars
    /\ UNCHANGED <<parserVars, layoutVars, bezierVars>>

NextCanvas ==
    \E c \in Cursors, deltaY \in DeltaYs : handleWheel(c[1], c[2], deltaY)

(***************************************************************************)
(* GraphCanvas: the mouse handlers                                         *)
(***************************************************************************)
\* Array.prototype.find on the id: the first element with that id, if any
Find(seq, id) ==
    LET S == {k \in DOMAIN seq : seq[k].id = id}
    IN  IF S = {} THEN None ELSE Some(seq[CHOOSE k \in S : \A j \in S : k <= j])

\* mutant: the drag moves every node
MoveNodeEvery(g, nodeId, svgPos, offset, dim) ==
    [g EXCEPT !.nodes =
        [k \in DOMAIN g.nodes |->
            [g.nodes[k] EXCEPT
                !.x = RDiv(RSub(svgPos.x, offset.x), Rat(dim.width)),
                !.y = RDiv(RSub(svgPos.y, offset.y), Rat(dim.height))]]]

\* mutant: the drag puts the centre of the node under the cursor
MoveNodeCentered(g, nodeId, svgPos, offset, dim) ==
    [g EXCEPT !.nodes =
        [k \in DOMAIN g.nodes |->
            IF g.nodes[k].id = nodeId
            THEN [g.nodes[k] EXCEPT
                    !.x = RDiv(svgPos.x, Rat(dim.width)),
                    !.y = RDiv(svgPos.y, Rat(dim.height))]
            ELSE g.nodes[k]]]

\* lines 143-154: the graph data a node drag hands to onGraphDataChange
MoveNode(g, nodeId, svgPos, offset, dim) ==
    [g EXCEPT !.nodes =
        [k \in DOMAIN g.nodes |->
            IF g.nodes[k].id = nodeId
            THEN [g.nodes[k] EXCEPT
                    !.x = RDiv(RSub(svgPos.x, offset.x), Rat(dim.width)),
                    !.y = RDiv(RSub(svgPos.y, offset.y), Rat(dim.height))]
            ELSE g.nodes[k]]]

\* lines 159-177: the graph data a control-point drag hands to onGraphDataChange
MoveControlPoint(g, edgeId, cpId, svgPos, dim) ==
    [g EXCEPT !.edges =
        [k \in DOMAIN g.edges |->
            IF g.edges[k].id = edgeId
            THEN [g.edges[k] EXCEPT !.controlPoints =
                    [c \in DOMAIN @ |->
                        IF @[c].id = cpId
                        THEN [@[c] EXCEPT !.x = RDiv(svgPos.x, Rat(dim.width)),
                                          !.y = RDiv(svgPos.y, Rat(dim.height))]
                        ELSE @[c]]]
            ELSE g.edges[k]]]

\* the 0.2 of lines 229-230
PerpFactor == <<1, 5>>

\* lines 223-240: the control point handleEdgeClick stores
ClickControlPoint(edgeId, sourceNode, targetNode) ==
    LET midX  == RDiv(RAdd(sourceNode.x, targetNode.x), Rat(2))
        midY  == RDiv(RAdd(sourceNode.y, targetNode.y), Rat(2))
        dx    == RSub(targetNode.x, sourceNode.x)
        dy    == RSub(targetNode.y, sourceNode.y)
        perpX == RMul(RNeg(dy), PerpFactor)
        perpY == RMul(dx, PerpFactor)
    IN  [id |-> ControlPointId(edgeId), x |-> RAdd(midX, perpX), y |-> RAdd(midY, perpY)]

\* the edges with the control points of edge edgeId set to cps
WithControlPoints(g, edgeId, cps) ==
    [g EXCEPT !.edges =
        [k \in DOMAIN g.edges |->
            IF g.edges[k].id = edgeId
            THEN [g.edges[k] EXCEPT !.controlPoints = cps]
            ELSE g.edges[k]]]

\* mutant: the control point is stored afresh on every click
AddDefaultControlPointAgain(g, edgeId) ==
    LET edge == Find(g.edges, edgeId)
    IN  IF edge # None
        THEN LET sourceNode == Find(g.nodes, edge[1].source)
                 targetNode == Find(g.nodes, edge[1].target)
             IN  IF sourceNode # None /\ targetNode # None
                 THEN WithControlPoints(g, edgeId,
                        <<ClickControlPoint(edgeId, sourceNode[1], targetNode[1])>>)
                 ELSE g
        ELSE g

\* mutant: every click adds a control point
AddDefaultControlPointMore(g, edgeId) ==
    LET edge == Find(g.edges, edgeId)
    IN  IF edge # None
        THEN LET sourceNode == Find(g.nodes, edge[1].source)
                 targetNode == Find(g.nodes, edge[1].target)
             IN  IF sourceNode # None /\ targetNode # None
                 THEN WithControlPoints(g, edgeId,
                        Append(edge[1].controlPoints,
                               ClickControlPoint(edgeId, sourceNode[1], targetNode[1])))
                 ELSE g
        ELSE g

\* lines 217-247: the graph data after a click on edge edgeId
AddDefaultControlPoint(g, edgeId) ==
    LET edge == Find(g.edges, edgeId)
    IN  IF edge # None /\ Len(edge[1].controlPoints) = 0
        THEN LET sourceNode == Find(g.nodes, edge[1].source)
                 targetNode == Find(g.nodes, edge[1].target)
             IN  IF sourceNode # None /\ targetNode # None
                 THEN WithControlPoints(g, edgeId,
                        <<ClickControlPoint(edgeId, sourceNode[1], targetNode[1])>>)
                 ELSE g
        ELSE g

\* mutant: the pan is taken in graph units
PanUpdateScaled(prev, dx, dy) ==
    [prev EXCEPT !.offsetX = RAdd(@, RDiv(Rat(dx), prev.scale)),
                 !.offsetY = RAdd(@, RDiv(Rat(dy), prev.scale))]

\* lines 183-187: the updater a pan gives setViewport
PanUpdate(prev, dx, dy) ==
    [prev EXCEPT !.offsetX = RAdd(@, Rat(dx)), !.offsetY = RAdd(@, Rat(dy))]

\* the viewports a run with the mouse starts from
PointerViewports ==
    {IdentityViewport,
     [scale |-> <<19, 2>>, offsetX |-> Rat(30), offsetY |-> Rat(-20)],
     [scale |-> <<21, 200>>, offsetX |-> Rat(30), offsetY |-> Rat(-20)]}

\* clientX, clientY of the mouse events
Pointers == {<<520, 300>>, <<600, 360>>}

\* deltaY of the wheel events between mouse events
PointerDeltaYs == {-100, 100}

\* e.button: the left and the right button
Buttons == {0, 2}

\* the ids the handlers are called with: of the graph, and of no node or edge
ClickedNodeIds == {"A", "B", "Z"}
ClickedEdgeIds == {"edge-0", "edge-1", "edge-9"}

InitPointer ==
    /\ viewport \in PointerViewports
    /\ rect = [left |-> 320, top |-> 0]
    /\ wheels = 0
    /\ lastWheel = None
    /\ graphData = StartGraph
    /\ dimensions = DefaultDimensions
    /\ selectedNodeId = None
    /\ selectedEdgeId = None
    /\ selectedControlPointId = None
    /\ isDragging = FALSE
    /\ dragStart = Origin
    /\ dragNodeOffset = ZeroOffset
    /\ isPanning = FALSE
    /\ events = 0
    /\ gesture = Untracked
    /\ closure = NoTiming
    /\ reference = NoTiming

\* mutant: a mouse-down on a node keeps the selected edge
handleNodeMouseDownKeepEdge(clientX, clientY, nodeId) ==
    /\ events < MaxEvents
    /\ LET node == Find(graphData.nodes, nodeId)
       IN  IF node = None
           THEN UNCHANGED <<selectedNodeId, isDragging, dragStart,
                            dragNodeOffset>>
           ELSE LET svgPos == screenToSVG(viewport, rect, clientX, clientY)
                IN  /\ selectedNodeId' = Some(nodeId)
                    /\ isDragging' = TRUE
                    /\ dragStart' = [x |-> clientX, y |-> clientY]
                    /\ dragNodeOffset' =
                         [x |-> RSub(svgPos.x, RMul(node[1].x, Rat(dimensions.width))),
                          y |-> RSub(svgPos.y, RMul(node[1].y, Rat(dimensions.height)))]
    /\ events' = events + 1
    /\ UNCHANGED <<viewport, rect, wheels, lastWheel, graphData, dimensions,
                   selectedEdgeId, selectedControlPointId, isPanning>>
    /\ gesture' = Track(IF Find(graphData.nodes, nodeId) = None
                        THEN NoGesture
                        ELSE Gesture("node", nodeId, clientX, clientY))
    /\ UNCHANGED timingVars
    /\ UNCHANGED <<parserVars, layoutVars, bezierVars>>

\* lines 95-111
handleNodeMouseDown(clientX, clientY, nodeId) ==
    /\ events < MaxEvents
    /\ LET node == Find(graphData.nodes, nodeId)
       IN  IF node = None
           THEN UNCHANGED <<selectedNodeId, selectedEdgeId, isDragging, dragStart,
                            dragNodeOffset>>
           ELSE LET svgPos == screenToSVG(viewport, rect, clientX, clientY)
                IN  /\ selectedNodeId' = Some(nodeId)
                    /\ selectedEdgeId' = None
                    /\ isDragging' = TRUE
                    /\ dragStart' = [x |-> clientX, y |-> clientY]
                    /\ dragNodeOffset' =
                         [x |-> RSub(svgPos.x, RMul(node[1].x, Rat(dimensions.width))),
                          y |-> RSub(svgPos.y, RMul(node[1].y, Rat(dimensions.height)))]
    /\ events' = events + 1
    /\ UNCHANGED <<viewport, rect, wheels, lastWheel, graphData, dimensions,
                   selectedControlPointId, isPanning>>
    /\ gesture' = Track(IF Find(graphData.nodes, nodeId) = None
                        THEN NoGesture
                        ELSE Gesture("node", nodeId, clientX, clientY))
    /\ UNCHANGED timingVars
    /\ UNCHANGED <<parserVars, layoutVars, bezierVars>>

\* lines 114-125
handleControlPointMouseDown(clientX, clientY, edgeId, controlPointId) ==
    /\ events < MaxEvents
    /\ selectedEdgeId' = Some(edgeId)
    /\ selectedControlPointId' = Some(controlPointId)
    /\ isDragging' = TRUE
    /\ dragStart' = [x |-> clientX, y |-> clientY]
    /\ events' = events + 1
    /\ UNCHANGED <<viewport, rect, wheels, lastWheel, graphData, dimensions,
                   selectedNodeId, dragNodeOffset, isPanning>>
    /\ gesture' = Track(Gesture("controlPoint", controlPointId, clientX, clientY))
    /\ UNCHANGED timingVars
    /\ UNCHANGED <<parserVars, layoutVars, bezierVars>>

\* lines 128-135
handleCanvasMouseDown(clientX, clientY, button) ==
    /\ events < MaxEvents
    /\ IF button = 0
       THEN /\ isPanning' = TRUE
            /\ dragStart' = [x |-> clientX, y |-> clientY]
            /\ selectedNodeId' = None
            /\ selectedEdgeId' = None
       ELSE UNCHANGED <<isPanning, dragStart, selectedNodeId, selectedEdgeId>>
    /\ events' = events + 1
    /\ UNCHANGED <<viewport, rect, wheels, lastWheel, graphData, dimensions,
                   selectedControlPointId, isDragging, dragNodeOffset>>
    /\ gesture' = Track(IF button = 0
                        THEN Gesture("background", "", clientX, clientY)
                        ELSE NoGesture)
    /\ UNCHANGED timingVars
    /\ UNCHANGED <<parserVars, layoutVars, bezierVars>>

\* lines 138-190
handleMouseMove(clientX, clientY) ==
    /\ events < MaxEvents
    /\ IF isDragging /\ selectedNodeId # None
       THEN /\ graphData' = MoveNode(graphData, selectedNodeId[1],
                                     screenToSVG(viewport, rect, clientX, clientY),
                                     dragNodeOffset, dimensions)
            /\ UNCHANGED <<viewport, dragStart>>
       ELSE IF isDragging /\ selectedEdgeId # None /\ selectedControlPointId # None
       THEN /\ graphData' = MoveControlPoint(graphData, selectedEdgeId[1],
                                             selectedControlPointId[1],
                                             screenToSVG(viewport, rect, clientX, clientY),
                                             dimensions)
            /\ UNCHANGED <<viewport, dragStart>>
       ELSE IF isPanning
       THEN /\ viewport' = PanUpdate(viewport, clientX - dragStart.x,
                                     clientY - dragStart.y)
            /\ dragStart' = [x |-> clientX, y |-> clientY]
            /\ UNCHANGED graphData
       ELSE UNCHANGED <<graphData, viewport, dragStart>>
    /\ events' = events + 1
    /\ UNCHANGED <<rect, wheels, lastWheel, dimensions, selectedNodeId, selectedEdgeId,
                   selectedControlPointId, isDragging, dragNodeOffset, isPanning>>
    /\ gesture' = Track(IF gesture.kind = "none"
                        THEN NoGesture
                        ELSE [gesture EXCEPT !.p = [x |-> clientX, y |-> clientY],
                                             !.moved = TRUE])
    /\ UNCHANGED timingVars
    /\ UNCHANGED <<parserVars, layoutVars, bezierVars>>

\* mutant: the pan goes on after the button is released
handleMouseUpKeepPan ==
    /\ events < MaxEvents
    /\ isDragging' = FALSE
    /\ events' = events + 1
    /\ UNCHANGED <<viewport, rect, wheels, lastWheel, graphData, dimensions,
                   selectedNodeId, selectedEdgeId, selectedControlPointId, dragStart,
                   dragNodeOffset, isPanning>>
    /\ gesture' = Track(NoGesture)
    /\ UNCHANGED timingVars
    /\ UNCHANGED <<parserVars, layoutVars, bezierVars>>

\* mutant: releasing the button resets the view
handleMouseUpResetView ==
    /\ events < MaxEvents
    /\ isDragging' = FALSE
    /\ isPanning' = FALSE
    /\ viewport' = IdentityViewport
    /\ events' = events + 1
    /\ UNCHANGED <<rect, wheels, lastWheel, graphData, dimensions,
                   selectedNodeId, selectedEdgeId, selectedControlPointId, dragStart,
                   dragNodeOffset>>
    /\ gesture' = Track(NoGesture)
    /\ UNCHANGED timingVars
    /\ UNCHANGED <<parserVars, layoutVars, bezierVars>>

\* lines 206-209, the handler of both onMouseUp and onMouseLeave (lines 264-265)
handleMouseUp ==
    /\ events < MaxEvents
    /\ isDragging' = FALSE
    /\ isPanning' = FALSE
    /\ events' = events + 1
    /\ UNCHANGED <<viewport, rect, wheels, lastWheel, graphData, dimensions,
                   selectedNodeId, selectedEdgeId, selectedControlPointId, dragStart,
                   dragNodeOffset>>
    /\ gesture' = Track(NoGesture)
    /\ UNCHANGED timingVars
    /\ UNCHANGED <<parserVars, layoutVars, bezierVars>>

\* lines 212-249
handleEdgeClick(edgeId) ==
    /\ events < MaxEvents
    /\ selectedEdgeId' = Some(edgeId)
    /\ selectedNodeId' = None
    /\ graphData' = AddDefaultControlPoint(graphData, edgeId)
    /\ events' = events + 1
    /\ UNCHANGED <<viewport, rect, wheels, lastWheel, dimensions,
                   selectedControlPointId, isDragging, dragStart, dragNodeOffset,
                   isPanning>>
    /\ gesture' = Track(NoGesture)
    /\ UNCHANGED timingVars
    /\ UNCHANGED <<parserVars, layoutVars, bezierVars>>

NextPointer ==
    \/ \E c \in Pointers, deltaY \in PointerDeltaYs : handleWheel(c[1], c[2], deltaY)
    \/ \E c \in Pointers, nodeId \in ClickedNodeIds :
          handleNodeMouseDown(c[1], c[2], nodeId)
    \/ \E c \in Pointers, edgeId \in ClickedEdgeIds :
          handleControlPointMouseDown(c[1], c[2], edgeId, ControlPointId(edgeId))
    \/ \E c \in Pointers, button \in Buttons : handleCanvasMouseDown(c[1], c[2], button)
    \/ \E c \in Pointers : handleMouseMove(c[1], c[2])
    \/ handleMouseUp
    \/ \E edgeId \in ClickedEdgeIds : handleEdgeClick(edgeId)

\* the canvas' variables while another component is looked at
CanvasOff ==
    [viewport |-> IdentityViewport, rect |-> [left |-> 0, top |-> 0], wheels |-> 0,
     lastWheel |-> None, graphData |-> [nodes |-> <<>>, edges |-> <<>>],
     dimensions |-> DefaultDimensions, selectedNodeId |-> None,
     selectedEdgeId |-> None, selectedControlPointId |-> None,
     isDragging |-> FALSE, dragStart |-> Origin, dragNodeOffset |-> ZeroOffset,
     isPanning |-> FALSE, events |-> 0, gesture |-> Untracked, closure |-> NoTiming,
     reference |-> NoTiming]

(***************************************************************************)
(* bezierUtils.  A distance is the square root of a rational: it is kept   *)
(* as that rational, [sq |-> q] standing for Math.sqrt(q), and Infinity    *)
(* as [inf |-> TRUE].  Square roots compare as their radicands do.         *)
(***************************************************************************)
Point(x, y) == [x |-> x, y |-> y]

\* mutant: the curve run from p2 to p0
quadraticBezierPointReversed(t, p0, p1, p2) ==
    LET mt == RSub(Rat(1), t)
    IN  Point(RAdd(RAdd(RMul(RMul(t, t), p0.x),
                        RMul(RMul(RMul(Rat(2), mt), t), p1.x)),
                   RMul(RMul(mt, mt), p2.x)),
              RAdd(RAdd(RMul(RMul(t, t), p0.y),
                        RMul(RMul(RMul(Rat(2), mt), t), p1.y)),
                   RMul(RMul(mt, mt), p2.y)))

\* lines 14-25
quadraticBezierPoint(t, p0, p1, p2) ==
    LET mt == RSub(Rat(1), t)
    IN  Point(RAdd(RAdd(RMul(RMul(mt, mt), p0.x),
                        RMul(RMul(RMul(Rat(2), mt), t), p1.x)),
                   RMul(RMul(t, t), p2.x)),
              RAdd(RAdd(RMul(RMul(mt, mt), p0.y),
                        RMul(RMul(RMul(Rat(2), mt), t), p1.y)),
                   RMul(RMul(t, t), p2.y)))

Infinity == [inf |-> TRUE, sq |-> Rat(0)]

\* Math.sqrt(q)
Sqrt(q) == [inf |-> FALSE, sq |-> q]

\* lines 152-156
distance(p1, p2) ==
    LET dx == RSub(p2.x, p1.x)
        dy == RSub(p2.y, p1.y)
    IN  Sqrt(RAdd(RMul(dx, dx), RMul(dy, dy)))

\* mutant: a sample as near as the nearest so far replaces it
DistLessOrEqual(a, b) == ~a.inf /\ (b.inf \/ RLeq(a.sq, b.sq))

\* line 190: dist < minDist
DistLess(a, b) == ~a.inf /\ (b.inf \/ ~RLeq(b.sq, a.sq))

\* lines 184-198: the loop from sample i on, min holding minT, minPoint, minDist
RECURSIVE ClosestLoop(_, _, _, _, _, _, _)
ClosestLoop(k, min, point, p0, p1, p2, samples) ==
    IF k > samples
    THEN min
    ELSE LET t          == Norm(k, samples)
             curvePoint == quadraticBezierPoint(t, p0, p1, p2)
             dist       == distance(point, curvePoint)
         IN  ClosestLoop(k + 1,
                         IF DistLess(dist, min.distance)
                         THEN [t |-> t, point |-> curvePoint, distance |-> dist]
                         ELSE min,
                         point, p0, p1, p2, samples)

\* lines 173-201
closestPointOnQuadraticBezier(point, p0, p1, p2, samples) ==
    ClosestLoop(0, [t |-> Rat(0), point |-> p0, distance |-> Infinity],
                point, p0, p1, p2, samples)

\* the points and parameters the functions are called with
BezierPoints == {Point(Rat(0), Rat(0)), Point(Rat(4), Rat(0)), Point(Rat(2), Rat(3))}
Parameters == {Rat(0), <<1, 3>>, Rat(1)}

InitBezier ==
    /\ bz \in [point : BezierPoints, p0 : BezierPoints, p1 : BezierPoints,
               p2 : BezierPoints, samples : 1..MaxSamples, t : Parameters]
    /\ bzResult = None

CallQuadraticBezierPoint ==
    /\ bzResult = None
    /\ bzResult' = Some([call  |-> "quadraticBezierPoint",
                         value |-> quadraticBezierPoint(bz.t, bz.p0, bz.p1, bz.p2)])
    /\ UNCHANGED bz
    /\ UNCHANGED <<parserVars, layoutVars, canvasVars>>

CallClosestPoint ==
    /\ bzResult = None
    /\ bzResult' = Some([call  |-> "closestPointOnQuadraticBezier",
                         value |-> closestPointOnQuadraticBezier(bz.point, bz.p0, bz.p1,
                                                                 bz.p2, bz.samples)])
    /\ UNCHANGED bz
    /\ UNCHANGED <<parserVars, layoutVars, canvasVars>>

NextBezier ==
    \/ CallQuadraticBezierPoint
    \/ CallClosestPoint

\* the bezier variables while another component is looked at
BezierOff == [bz |-> None, bzResult |-> None]


(***************************************************************************)
(* The specifications.                                                     *)
(***************************************************************************)
InitSpecParser ==
    /\ InitParser
    /\ parseResult = LayoutOff.parseResult
    /\ positions = LayoutOff.positions
    /\ temp = LayoutOff.temp
    /\ iter = LayoutOff.iter
    /\ run = LayoutOff.run
    /\ firstResult = LayoutOff.firstResult
    /\ lpc = LayoutOff.lpc
    /\ fc = LayoutOff.fc
    /\ fcResult = LayoutOff.fcResult
    /\ viewport = CanvasOff.viewport
    /\ rect = CanvasOff.rect
    /\ wheels = CanvasOff.wheels
    /\ lastWheel = CanvasOff.lastWheel
    /\ graphData = CanvasOff.graphData
    /\ dimensions = CanvasOff.dimensions
    /\ selectedNodeId = CanvasOff.selectedNodeId
    /\ selectedEdgeId = CanvasOff.selectedEdgeId
    /\ selectedControlPointId = CanvasOff.selectedControlPointId
    /\ isDragging = CanvasOff.isDragging
    /\ dragStart = CanvasOff.dragStart
    /\ dragNodeOffset = CanvasOff.dragNodeOffset
    /\ isPanning = CanvasOff.isPanning
    /\ events = CanvasOff.events
    /\ gesture = CanvasOff.gesture
    /\ closure = CanvasOff.closure
    /\ reference = CanvasOff.reference
    /\ bz = BezierOff.bz
    /\ bzResult = BezierOff.bzResult

SpecParser == InitSpecParser /\ [][NextParser]_vars

InitSpecLayout ==
    /\ InitLayout
    /\ input = ParserOff.input
    /\ mermaidText = ParserOff.mermaidText
    /\ lines = ParserOff.lines
    /\ i = ParserOff.i
    /\ nodes = ParserOff.nodes
    /\ edges = ParserOff.edges
    /\ pc = ParserOff.pc
    /\ viewport = CanvasOff.viewport
    /\ rect = CanvasOff.rect
    /\ wheels = CanvasOff.wheels
    /\ lastWheel = CanvasOff.lastWheel
    /\ graphData = CanvasOff.graphData
    /\ dimensions = CanvasOff.dimensions
    /\ selectedNodeId = CanvasOff.selectedNodeId
    /\ selectedEdgeId = CanvasOff.selectedEdgeId
    /\ selectedControlPointId = CanvasOff.selectedControlPointId
    /\ isDragging = CanvasOff.isDragging
    /\ dragStart = CanvasOff.dragStart
    /\ dragNodeOffset = CanvasOff.dragNodeOffset
    /\ isPanning = CanvasOff.isPanning
    /\ events = CanvasOff.events
    /\ gesture = CanvasOff.gesture
    /\ closure = CanvasOff.closure
    /\ reference = CanvasOff.reference
    /\ bz = BezierOff.bz
    /\ bzResult = BezierOff.bzResult

SpecLayout == InitSpecLayout /\ [][NextLayout]_vars

InitSpecCanvas ==
    /\ InitCanvas
    /\ input = ParserOff.input
    /\ mermaidText = ParserOff.mermaidText
    /\ lines = ParserOff.lines
    /\ i = ParserOff.i
    /\ nodes = ParserOff.nodes
    /\ edges = ParserOff.edges
    /\ pc = ParserOff.pc
    /\ parseResult = LayoutOff.parseResult
    /\ positions = LayoutOff.positions
    /\ temp = LayoutOff.temp
    /\ iter = LayoutOff.iter
    /\ run = LayoutOff.run
    /\ firstResult = LayoutOff.firstResult
    /\ lpc = LayoutOff.lpc
    /\ fc = LayoutOff.fc
    /\ fcResult = LayoutOff.fcResult
    /\ bz = BezierOff.bz
    /\ bzResult = BezierOff.bzResult

SpecCanvas == InitSpecCanvas /\ [][NextCanvas]_vars

InitSpecPointer ==
    /\ InitPointer
    /\ input = ParserOff.input
    /\ mermaidText = ParserOff.mermaidText
    /\ lines = ParserOff.lines
    /\ i = ParserOff.i
    /\ nodes = ParserOff.nodes
    /\ edges = ParserOff.edges
    /\ pc = ParserOff.pc
    /\ parseResult = LayoutOff.parseResult
    /\ positions = LayoutOff.positions
    /\ temp = LayoutOff.temp
    /\ iter = LayoutOff.iter
    /\ run = LayoutOff.run
    /\ firstResult = LayoutOff.firstResult
    /\ lpc = LayoutOff.lpc
    /\ fc = LayoutOff.fc
    /\ fcResult = LayoutOff.fcResult
    /\ bz = BezierOff.bz
    /\ bzResult = BezierOff.bzResult

SpecPointer == InitSpecPointer /\ [][NextPointer]_vars

InitSpecBezier ==
    /\ InitBezier
    /\ input = ParserOff.input
    /\ mermaidText = ParserOff.mermaidText
    /\ lines = ParserOff.lines
    /\ i = ParserOff.i
    /\ nodes = ParserOff.nodes
    /\ edges = ParserOff.edges
    /\ pc = ParserOff.pc
    /\ parseResult = LayoutOff.parseResult
    /\ positions = LayoutOff.positions
    /\ temp = LayoutOff.temp
    /\ iter = LayoutOff.iter
    /\ run = LayoutOff.run
    /\ firstResult = LayoutOff.firstResult
    /\ lpc = LayoutOff.lpc
    /\ fc = LayoutOff.fc
    /\ fcResult = LayoutOff.fcResult
    /\ viewport = CanvasOff.viewport
    /\ rect = CanvasOff.rect
    /\ wheels = CanvasOff.wheels
    /\ lastWheel = CanvasOff.lastWheel
    /\ graphData = CanvasOff.graphData
    /\ dimensions = CanvasOff.dimensions
    /\ selectedNodeId = CanvasOff.selectedNodeId
    /\ selectedEdgeId = CanvasOff.selectedEdgeId
    /\ selectedControlPointId = CanvasOff.selectedControlPointId
    /\ isDragging = CanvasOff.isDragging
    /\ dragStart = CanvasOff.dragStart
    /\ dragNodeOffset = CanvasOff.dragNodeOffset
    /\ isPanning = CanvasOff.isPanning
    /\ events = CanvasOff.events
    /\ gesture = CanvasOff.gesture
    /\ closure = CanvasOff.closure
    /\ reference = CanvasOff.reference

SpecBezier == InitSpecBezier /\ [][NextBezier]_vars

(***************************************************************************)
(* What the scan has read, told from the catalogue alone.                  *)
(***************************************************************************)
\* the catalogue entries of the non-blank lines of the input, in order
NonBlank == SelectSeq(input, LAMBDA c : Catalogue[c].class # "blank")

\* the first scanned position: a leading graph declaration is consumed
FirstScanned ==
    IF NonBlank # <<>> /\ Catalogue[NonBlank[1]].class = "header" THEN 2 ELSE 1

\* the entries of the lines the loop has gone through so far
Scanned ==
    IF pc \in {"loop", "done"}
    THEN [k \in 1..(i - FirstScanned) |-> Catalogue[NonBlank[FirstScanned + k - 1]]]
    ELSE <<>>

\* the entry of the line the loop is at
Cur == Catalogue[NonBlank[i]]

AtLine == pc = "loop" /\ i <= Len(lines)

\* a graph declaration below the first line is no declaration of anything
IsOther(c) == c.class \in {"other", "header"}

\* the ids a line brings, in the order the line names them
IdsOf(c) ==
    IF c.class = "node" THEN <<c.id>>
    ELSE IF c.class = "edge" THEN <<c.source, c.target>>
    ELSE <<>>

RECURSIVE Distinct(_)
Distinct(s) ==
    IF s = <<>> THEN <<>>
    ELSE LET front == Distinct(SubSeq(s, 1, Len(s) - 1))
             last  == s[Len(s)]
         IN  IF \E k \in DOMAIN front : front[k] = last THEN front
             ELSE Append(front, last)

RECURSIVE Flatten(_)
Flatten(ss) == IF ss = <<>> THEN <<>> ELSE ss[1] \o Flatten(Tail(ss))

\* ids in the order of their first occurrence in the lines cs
FirstSeen(cs) == Distinct(Flatten([k \in DOMAIN cs |-> IdsOf(cs[k])]))

Ids(map) == [k \in DOMAIN map |-> map[k].id]

EdgeSaid(c) == [source |-> c.source, target |-> c.target, type |-> c.type,
                label |-> c.label]

\* C1: on input with no non-blank line the parser raises no error and returns
\* the empty graph
C1_EmptyInputEmptyGraph ==
    NonBlank = <<>> =>
        /\ pc # "TypeError"
        /\ pc = "done" => (nodes = <<>> /\ edges = <<>>)

\* C2: lines are read top to bottom; the label of an id is the label of its
\* last node-declaration line read so far (a bare id giving the id itself), and
\* the ids stand in the order of their first occurrence
C2_LastDeclarationWins ==
    pc \in {"loop", "done"} =>
        /\ Len(Scanned) = i - FirstScanned
        /\ Ids(nodes) = FirstSeen(Scanned)
        /\ \A k \in DOMAIN Scanned :
              (/\ Scanned[k].class = "node"
               /\ \A m \in (k + 1)..Len(Scanned) :
                     ~(Scanned[m].class = "node" /\ Scanned[m].id = Scanned[k].id))
              => /\ MapHas(nodes, Scanned[k].id)
                 /\ MapGet(nodes, Scanned[k].id) = Scanned[k].label

\* "A[Alpha]\nB(Beta)\nA" has given nodes A, B with A's label "A"
C2_Witness ==
    /\ pc = "done"
    /\ input = <<4, 5, 6>>
    /\ nodes = <<[id |-> sA, label |-> sA],
                 [id |-> sB, label |-> <<"B", "e", "t", "a">>]>>

\* C3: the step over an edge line leaves every label already in the map as
\* it is, and puts each missing endpoint in with its id as label; the step
\* over a node-declaration line still replaces a label an edge line gave
C3_EdgeKeepsLabels ==
    [][AtLine =>
          /\ Cur.class = "edge" =>
                /\ \A k \in DOMAIN nodes : nodes'[k] = nodes[k]
                /\ \A id \in {Cur.source, Cur.target} :
                      /\ MapHas(nodes', id)
                      /\ ~MapHas(nodes, id) => MapGet(nodes', id) = id
          /\ Cur.class = "node" =>
                /\ MapHas(nodes', Cur.id)
                /\ MapGet(nodes', Cur.id) = Cur.label]_vars

\* "A[Alpha]\nA --> B\nB(Beta)": the edge line kept "Alpha" and gave B the
\* label "B", which the later declaration replaced by "Beta"
C3_Witness ==
    /\ pc = "done"
    /\ input = <<4, 8, 5>>
    /\ nodes = <<[id |-> sA, label |-> <<"A", "l", "p", "h", "a">>],
                 [id |-> sB, label |-> <<"B", "e", "t", "a">>]>>
    /\ Len(edges) = 1

OnlyNodeLines == \A k \in DOMAIN input : Catalogue[input[k]].class = "node"

InputIds == {Catalogue[input[k]].id : k \in DOMAIN input}

\* C4: when every line of the input is a node declaration, the result has no
\* edge and one node per distinct id, in the order of the ids' first
\* occurrence
C4_NodeLinesOnly ==
    (pc = "done" /\ OnlyNodeLines) =>
        /\ edges = <<>>
        /\ Len(nodes) = Cardinality(InputIds)
        /\ Ids(nodes) = Distinct([k \in DOMAIN input |-> Catalogue[input[k]].id])

\* three node lines, two of them for the same id
C4_Witness ==
    /\ pc = "done"
    /\ OnlyNodeLines
    /\ Len(input) = 3
    /\ Len(nodes) = 2
    /\ input[1] # input[3]
    /\ Catalogue[input[1]].id = Catalogue[input[3]].id

\* the edges the lines cs declare, one per edge line, in order
RECURSIVE EdgesSaid(_)
EdgesSaid(cs) ==
    IF cs = <<>> THEN <<>>
    ELSE IF cs[1].class = "edge" THEN <<EdgeSaid(cs[1])>> \o EdgesSaid(Tail(cs))
    ELSE EdgesSaid(Tail(cs))

\* C5: the edge list is the edge lines read so far, one edge per line in
\* their order, repeated lines kept; the kind is the arrow's and the label is
\* the trimmed text of the |...| segment after the arrow (none when the
\* segment is missing or holds no text); a line matches at most one pattern
C5_EdgesInOrder ==
    /\ pc \in {"loop", "done"} => edges = EdgesSaid(Scanned)
    /\ \A l \in Range(lines) :
          Cardinality({p \in DOMAIN EdgePatterns :
                          MatchEdge(l, EdgePatterns[p].arrow).matched}) <= 1

\* the same labelled edge line twice, then another kind
C5_Witness ==
    /\ pc = "done"
    /\ input = <<11, 11, 10>>
    /\ Len(edges) = 3
    /\ edges[1] = edges[2]
    /\ edges[1].label = Some(<<"x">>)
    /\ edges[3].type = "undirected"

\* C6: the step over a line that is neither an edge nor a node declaration
\* adds no node and no edge, raises nothing and moves on to the next line
C6_SkipUnmatched ==
    [][(AtLine /\ IsOther(Cur)) =>
          /\ nodes' = nodes
          /\ edges' = edges
          /\ pc' = "loop"
          /\ i' = i + 1]_vars

\* "A -> B" was skipped and the node line after it was read
C6_Witness ==
    /\ pc = "done"
    /\ input = <<14, 5>>
    /\ nodes = <<[id |-> sB, label |-> <<"B", "e", "t", "a">>]>>
    /\ edges = <<>>

\* C7: a line of the documented form "D --> E|0.75|" gives the directed edge
\* D -> E with label "0.75" and declares the nodes D and E
C7_DocumentedEdgeForm ==
    (pc = "done" /\ \E k \in DOMAIN Scanned : Scanned[k].class = "doc") =>
        /\ DocEdge \in Range(edges)
        /\ MapHas(nodes, sD)
        /\ MapHas(nodes, sE)

(***************************************************************************)
(* Claims about the layout.                                                *)
(***************************************************************************)
InBounds(p) == BoundLo <= p.x /\ p.x <= BoundHi /\ BoundLo <= p.y /\ p.y <= BoundHi

\* C8: for a graph with at least one node, after each of the 50 iterations
\* and in the result every node's x and y lie in [0.1, 0.9]
C8_PositionsInBounds ==
    (parseResult.n >= 1 /\ lpc \in {"iterate", "done"} /\ iter >= 1) =>
        \A id \in NodeIds(parseResult) : InBounds(positions[id])

\* a returned layout of a graph with a duplicate edge and a self-loop, with a
\* node held on the boundary by the clamp
C8_Witness ==
    /\ lpc = "done"
    /\ iter = iterations
    /\ Len(parseResult.edges) = 2
    /\ \E id \in NodeIds(parseResult) :
          positions[id].x \in {BoundLo, BoundHi} \/ positions[id].y \in {BoundLo, BoundHi}

UnderCursor(v) == screenToSVG(v, rect, lastWheel[1].clientX, lastWheel[1].clientY)

\* C10: after a wheel event the graph-space point under the cursor, taken
\* with the new viewport, is the point taken with the viewport before the
\* event, whatever the viewport, the cursor and the scroll direction, and
\* also when the new scale was clamped at 0.1 or 10
C10_ZoomTowardCursor ==
    lastWheel # None => UnderCursor(viewport) = UnderCursor(lastWheel[1].before)

\* a wheel event that changed the scale and was clamped at 10 or at 0.1, with
\* the cursor away from the graph-space origin
C10_Witness ==
    /\ lastWheel # None
    /\ viewport.scale \in {MinScale, MaxScale}
    /\ lastWheel[1].before.scale \notin {MinScale, MaxScale}
    /\ UnderCursor(viewport).x # Rat(0)
    /\ UnderCursor(viewport).y # Rat(0)

(***************************************************************************)
(* Claims about the canvas under mouse events.                             *)
(***************************************************************************)
\* where NodeRenderer and EdgeRenderer put the node (x * width, y * height)
NodePixels(g, dim) ==
    {[x |-> RMul(g.nodes[k].x, Rat(dim.width)), y |-> RMul(g.nodes[k].y, Rat(dim.height))] :
        k \in DOMAIN g.nodes}

CursorPoint(c) == [x |-> Rat(c[1]), y |-> Rat(c[2])]

\* C11: at every viewport, screenToSVG and the render transform of line 268
\* undo each other: a window point taken to the group and rendered comes
\* back to itself, and so does a point of the group rendered and taken back.
C11_RoundTrip ==
    /\ \A c \in Cursors :
          renderTransform(viewport, rect, screenToSVG(viewport, rect, c[1], c[2]))
             = CursorPoint(c)
    /\ \A p \in NodePixels(graphData, dimensions) :
          LET q == renderTransform(viewport, rect, p)
          IN  /\ q.x[2] = 1 /\ q.y[2] = 1
                 => screenToSVG(viewport, rect, q.x[1], q.y[1]) = p
              /\ RDiv(RSub(RSub(q.x, Rat(rect.left)), viewport.offsetX), viewport.scale) = p.x
              /\ RDiv(RSub(RSub(q.y, Rat(rect.top)), viewport.offsetY), viewport.scale) = p.y

\* a zoomed and panned viewport in an svg element away from the window's corner
C11_Witness ==
    /\ wheels = MaxWheels
    /\ viewport.scale \notin {MinScale, Rat(1), MaxScale}
    /\ viewport.offsetX # Rat(0)
    /\ viewport.offsetY # Rat(0)
    /\ rect.left # 0

\* C12: whatever wheel, mouse and click events were handled, the scale lies
\* in [0.1, 10].
C12_ScaleInRange ==
    /\ RLeq(MinScale, viewport.scale)
    /\ RLeq(viewport.scale, MaxScale)

\* a wheel event whose product left the range was handled, and mouse events
\* after it
C12_Witness ==
    /\ lastWheel # None
    /\ LET product == RMul(lastWheel[1].before.scale, Zoom(-Sign(lastWheel[1].deltaY)))
       IN  ~RLeq(product, MaxScale)
    /\ viewport.scale = MaxScale
    /\ isPanning
    /\ events > wheels

\* the edge and the node with an id of the graph
EdgeOfId(g, edgeId) == Find(g.edges, edgeId)[1]
NodeOfId(g, nodeId) == Find(g.nodes, nodeId)[1]

HasId(seq, id) == \E k \in DOMAIN seq : seq[k].id = id

\* the midpoint of the endpoints of edge e plus 0.2 * (-dy, dx), all in
\* normalized coordinates
MidpointPlusPerp(g, e) ==
    LET s == NodeOfId(g, e.source)
        t == NodeOfId(g, e.target)
    IN  [x |-> RSub(RDiv(RAdd(s.x, t.x), Rat(2)), RDiv(RSub(t.y, s.y), Rat(5))),
         y |-> RAdd(RDiv(RAdd(s.y, t.y), Rat(2)), RDiv(RSub(t.x, s.x), Rat(5)))]

\* C13: a click on an edge of the graph that stores no control point gives it
\* exactly one, at the midpoint of its endpoints plus 0.2 * (-dy, dx), and
\* leaves the nodes and the other edges alone; a click on an edge that stores
\* one changes no graph data, wherever its control point and endpoints are.
C13_ClickStoresOnce ==
    [][\A edgeId \in ClickedEdgeIds :
          handleEdgeClick(edgeId) /\ HasId(graphData.edges, edgeId) =>
             LET e == EdgeOfId(graphData, edgeId)
             IN  IF e.controlPoints = <<>>
                 THEN /\ graphData'.nodes = graphData.nodes
                      /\ \A k \in DOMAIN graphData.edges :
                            graphData.edges[k].id # edgeId
                               => graphData'.edges[k] = graphData.edges[k]
                      /\ LET cps == EdgeOfId(graphData', edgeId).controlPoints
                             at  == MidpointPlusPerp(graphData, e)
                         IN  /\ Len(cps) = 1
                             /\ cps[1].x = at.x
                             /\ cps[1].y = at.y
                 ELSE graphData' = graphData]_vars

\* edge-0 got its control point, then node A was dragged away, then edge-0
\* was clicked again: the control point is where the first click put it
C13_Witness ==
    /\ selectedEdgeId = Some("edge-0")
    /\ selectedNodeId = None
    /\ selectedControlPointId = None
    /\ NodeOfId(graphData, "A") # NodeOfId(StartGraph, "A")
    /\ LET cps == EdgeOfId(graphData, "edge-0").controlPoints
           at  == MidpointPlusPerp(StartGraph, EdgeOfId(StartGraph, "edge-0"))
       IN  /\ Len(cps) = 1
           /\ cps[1].x = at.x
           /\ cps[1].y = at.y
           /\ at # MidpointPlusPerp(graphData, EdgeOfId(graphData, "edge-0"))

\* C14: from graph data whose edges store no control point, whatever wheel,
\* mouse and click events were handled, every edge stores at most one.
C14_AtMostOneControlPoint ==
    \A k \in DOMAIN graphData.edges : Len(graphData.edges[k].controlPoints) <= 1

\* both edges were clicked, and the control point of edge-0 was dragged
C14_Witness ==
    /\ \A k \in DOMAIN graphData.edges : Len(graphData.edges[k].controlPoints) = 1
    /\ LET cp == EdgeOfId(graphData, "edge-0").controlPoints[1]
           at == MidpointPlusPerp(graphData, EdgeOfId(graphData, "edge-0"))
       IN  cp.x # at.x

\* C15: whatever mouse-down (on a node, a control point or the background),
\* move, up, leave, wheel and edge-click events were handled, isDragging and
\* isPanning are never both true.
C15_OneGesture == ~(isDragging /\ isPanning)

\* a mouse-move, and a mouse-down of any kind, as steps
MouseMoveStep == \E c \in Pointers : handleMouseMove(c[1], c[2])

MouseDownStep ==
    \/ \E c \in Pointers, nodeId \in ClickedNodeIds :
          handleNodeMouseDown(c[1], c[2], nodeId)
    \/ \E c \in Pointers, edgeId \in ClickedEdgeIds :
          handleControlPointMouseDown(c[1], c[2], edgeId, ControlPointId(edgeId))
    \/ \E c \in Pointers, button \in Buttons : handleCanvasMouseDown(c[1], c[2], button)

Idle == ~isDragging /\ ~isPanning

\* C16: a mouse-up or mouse-leave ends the gesture and changes neither the
\* selected node, the selected edge, the graph data nor the viewport; from
\* then on a mouse-move changes neither graph data nor viewport, and only a
\* mouse-down starts a gesture again.
C16_MouseUpEndsGesture ==
    [][/\ handleMouseUp =>
            /\ ~isDragging'
            /\ ~isPanning'
            /\ selectedNodeId' = selectedNodeId
            /\ selectedEdgeId' = selectedEdgeId
            /\ graphData' = graphData
            /\ viewport' = viewport
       /\ Idle /\ MouseMoveStep => graphData' = graphData /\ viewport' = viewport
       /\ Idle /\ (isDragging' \/ isPanning') => MouseDownStep]_vars

\* the canvas was panned and the button released: the pan is kept
C16_Witness ==
    /\ Idle
    /\ wheels = 0
    /\ viewport \notin PointerViewports

\* C17: a mouse-down on a node, a mouse-down on a control point, or a click
\* on an edge, with an id of no node or edge of the graph data, changes
\* neither graph data, viewport, selection nor drag state.
C17_MissingIdNoOp ==
    [][(\/ \E c \in Pointers, nodeId \in ClickedNodeIds :
             /\ ~HasId(graphData.nodes, nodeId)
             /\ handleNodeMouseDown(c[1], c[2], nodeId)
        \/ \E c \in Pointers, edgeId \in ClickedEdgeIds :
             /\ ~HasId(graphData.edges, edgeId)
             /\ handleControlPointMouseDown(c[1], c[2], edgeId, ControlPointId(edgeId))
        \/ \E edgeId \in ClickedEdgeIds :
             /\ ~HasId(graphData.edges, edgeId)
             /\ handleEdgeClick(edgeId))
       => UNCHANGED <<graphData, viewport, selectedNodeId, selectedEdgeId,
                      selectedControlPointId, isDragging, dragStart, dragNodeOffset,
                      isPanning>>]_vars

(***************************************************************************)
(* Claims about bezierUtils.                                               *)
(***************************************************************************)
Returned(call) == bzResult # None /\ bzResult[1].call = call

\* C18: quadraticBezierPoint(0, p0, p1, p2) is p0 and
\* quadraticBezierPoint(1, p0, p1, p2) is p2, whatever p0, p1, p2.
C18_EndpointInterpolation ==
    Returned("quadraticBezierPoint") =>
        /\ bz.t = Rat(0) => bzResult[1].value = bz.p0
        /\ bz.t = Rat(1) => bzResult[1].value = bz.p2

\* a call at t = 1 on a curve whose three points differ
C18_Witness ==
    /\ Returned("quadraticBezierPoint")
    /\ bz.t = Rat(1)
    /\ bz.p0 # bz.p1 /\ bz.p1 # bz.p2 /\ bz.p0 # bz.p2
    /\ bzResult[1].value = bz.p2

\* the squared distance from the query point to the sample k of samples
SampleSq(k) ==
    LET c == quadraticBezierPoint(Norm(k, bz.samples), bz.p0, bz.p1, bz.p2)
    IN  RAdd(RMul(RSub(c.x, bz.point.x), RSub(c.x, bz.point.x)),
             RMul(RSub(c.y, bz.point.y), RSub(c.y, bz.point.y)))

\* C19: closestPointOnQuadraticBezier returns a sample k / samples, with its
\* curve point and its distance, no other of the samples + 1 samples is
\* nearer to the query point, and none as near has a smaller t; called with
\* the query point p0 it returns t = 0 and distance 0.
C19_NearestSample ==
    Returned("closestPointOnQuadraticBezier") =>
        LET r == bzResult[1].value
        IN  /\ \E k \in 0..bz.samples :
                  /\ r.t = Norm(k, bz.samples)
                  /\ r.point = quadraticBezierPoint(r.t, bz.p0, bz.p1, bz.p2)
                  /\ r.distance = Sqrt(SampleSq(k))
                  /\ \A j \in 0..bz.samples :
                        /\ RLeq(SampleSq(k), SampleSq(j))
                        /\ SampleSq(j) = SampleSq(k) => k <= j
            /\ bz.point = bz.p0 => r.t = Rat(0) /\ r.distance = Sqrt(Rat(0))

\* the query point is p0, the curve comes back to p0 at t = 1, and there are
\* samples between: first and last sample tie at distance 0
C19_Witness ==
    /\ Returned("closestPointOnQuadraticBezier")
    /\ bz.point = bz.p0
    /\ bz.p2 = bz.p0
    /\ bz.p1 # bz.p0
    /\ bz.samples > 1
    /\ bzResult[1].value.t = Rat(0)

(***************************************************************************)
(* EdgeRenderer: the control point an edge is drawn with.  The length of   *)
(* calculateDefaultControlPoint is a square root: a number c * sqrt(q) is  *)
(* kept as [coef |-> c, rad |-> q], c and q rational.                      *)
(***************************************************************************)
\* Math.sqrt(q) || 1
SqrtOrOne(q) == IF q = Rat(0) THEN [coef |-> Rat(1), rad |-> Rat(1)]
                              ELSE [coef |-> Rat(1), rad |-> q]

\* r * (c sqrt(q)) and r / (c sqrt(q)), r rational
TimesSurd(r, s) == [coef |-> RMul(r, s.coef), rad |-> s.rad]
OverSurd(r, s) == [coef |-> RDiv(r, RMul(s.coef, s.rad)), rad |-> s.rad]

\* (a sqrt(q)) * (b sqrt(q)) = a b q
SurdProduct(s1, s2) == RMul(RMul(s1.coef, s2.coef), s1.rad)

\* bezierUtils lines 116-140
calculateDefaultControlPoint(start, end, offset) ==
    LET midX   == RDiv(RAdd(start.x, end.x), Rat(2))
        midY   == RDiv(RAdd(start.y, end.y), Rat(2))
        dx     == RSub(end.x, start.x)
        dy     == RSub(end.y, start.y)
        perpX  == RNeg(dy)
        perpY  == dx
        length == SqrtOrOne(RAdd(RMul(perpX, perpX), RMul(perpY, perpY)))
        normalizedOffset == TimesSurd(offset, length)
    IN  Point(RAdd(midX, SurdProduct(OverSurd(perpX, length), normalizedOffset)),
              RAdd(midY, SurdProduct(OverSurd(perpY, length), normalizedOffset)))

\* EdgeRenderer lines 364-383: the control point edge is drawn with, in
\* normalized coordinates
RenderedControlPoint(edge, sourceNode, targetNode, width, height) ==
    IF Len(edge.controlPoints) > 0
    THEN edge.controlPoints[1]
    ELSE LET startX    == RMul(sourceNode.x, Rat(width))
             startY    == RMul(sourceNode.y, Rat(height))
             endX      == RMul(targetNode.x, Rat(width))
             endY      == RMul(targetNode.y, Rat(height))
             defaultCP == calculateDefaultControlPoint(Point(startX, startY),
                                                       Point(endX, endY), PerpFactor)
         IN  [id |-> ControlPointId(edge.id),
              x  |-> RDiv(defaultCP.x, Rat(width)),
              y  |-> RDiv(defaultCP.y, Rat(height))]

\* C20: the control point a click stores on an edge that stored none is the
\* control point EdgeRenderer drew the edge with just before the click.
C20_ClickKeepsCurve ==
    [][\A edgeId \in ClickedEdgeIds :
          /\ handleEdgeClick(edgeId)
          /\ HasId(graphData.edges, edgeId)
          /\ EdgeOfId(graphData, edgeId).controlPoints = <<>>
          => LET e == EdgeOfId(graphData, edgeId)
             IN  EdgeOfId(graphData', edgeId).controlPoints =
                    <<RenderedControlPoint(e, NodeOfId(graphData, e.source),
                                           NodeOfId(graphData, e.target),
                                           dimensions.width, dimensions.height)>>]_vars

(***************************************************************************)
(* GraphCanvas with its renderers: the events the rendered elements        *)
(* deliver.  A node has a shape, an edge a path and, when selected, a      *)
(* handle, only while the graph data holds them.                           *)
(***************************************************************************)
\* GraphCanvas lines 270-274: the edge gets an EdgeRenderer
EdgeRendered(edgeId) ==
    /\ HasId(graphData.edges, edgeId)
    /\ HasId(graphData.nodes, EdgeOfId(graphData, edgeId).source)
    /\ HasId(graphData.nodes, EdgeOfId(graphData, edgeId).target)

\* GraphCanvas line 287, EdgeRenderer lines 512-522: the edge shows a handle
HandleRendered(edgeId) == EdgeRendered(edgeId) /\ selectedEdgeId = Some(edgeId)

\* EdgeRenderer lines 370-383: the id of the handle of a rendered edge
HandleId(edgeId) ==
    LET e == EdgeOfId(graphData, edgeId)
    IN  RenderedControlPoint(e, NodeOfId(graphData, e.source),
                             NodeOfId(graphData, e.target),
                             dimensions.width, dimensions.height).id

\* NodeRenderer lines 600-605, on the shape of a node of graphData.nodes
NodeRenderer_handleMouseDown(clientX, clientY, nodeId) ==
    /\ HasId(graphData.nodes, nodeId)
    /\ handleNodeMouseDown(clientX, clientY, nodeId)

\* EdgeRenderer lines 461-466, on the handle of line 513
EdgeRenderer_handleControlPointMouseDown(clientX, clientY, edgeId) ==
    /\ HandleRendered(edgeId)
    /\ handleControlPointMouseDown(clientX, clientY, edgeId, HandleId(edgeId))

\* EdgeRenderer lines 455-459, on the path of line 471
EdgeRenderer_handleEdgeClick(edgeId) ==
    /\ EdgeRendered(edgeId)
    /\ handleEdgeClick(edgeId)

\* ControlPanel lines 24-63 with the text parsed before: Home's setGraphData
\* gets the graph data of a new parse, and GraphCanvas keeps its state
handleParseMermaid ==
    /\ events < MaxEvents
    /\ graphData' = StartGraph
    /\ events' = events + 1
    /\ gesture' = Track(NoGesture)
    /\ UNCHANGED <<viewport, rect, wheels, lastWheel, dimensions, selectedNodeId,
                   selectedEdgeId, selectedControlPointId, isDragging, dragStart,
                   dragNodeOffset, isPanning>>
    /\ UNCHANGED timingVars
    /\ UNCHANGED <<parserVars, layoutVars, bezierVars>>

NextRendered ==
    \/ \E c \in Pointers, deltaY \in PointerDeltaYs : handleWheel(c[1], c[2], deltaY)
    \/ \E c \in Pointers, nodeId \in ClickedNodeIds :
          NodeRenderer_handleMouseDown(c[1], c[2], nodeId)
    \/ \E c \in Pointers, edgeId \in ClickedEdgeIds :
          EdgeRenderer_handleControlPointMouseDown(c[1], c[2], edgeId)
    \/ \E c \in Pointers, button \in Buttons : handleCanvasMouseDown(c[1], c[2], button)
    \/ \E c \in Pointers : handleMouseMove(c[1], c[2])
    \/ handleMouseUp
    \/ \E edgeId \in ClickedEdgeIds : EdgeRenderer_handleEdgeClick(edgeId)
    \/ handleParseMermaid

InitSpecRendered ==
    /\ viewport \in PointerViewports
    /\ rect = [left |-> 320, top |-> 0]
    /\ wheels = 0
    /\ lastWheel = None
    /\ graphData = StartGraph
    /\ dimensions = DefaultDimensions
    /\ selectedNodeId = None
    /\ selectedEdgeId = None
    /\ selectedControlPointId = None
    /\ isDragging = FALSE
    /\ dragStart = Origin
    /\ dragNodeOffset = ZeroOffset
    /\ isPanning = FALSE
    /\ events = 0
    /\ gesture = NoGesture
    /\ closure = NoTiming
    /\ reference = NoTiming
    /\ input = ParserOff.input
    /\ mermaidText = ParserOff.mermaidText
    /\ lines = ParserOff.lines
    /\ i = ParserOff.i
    /\ nodes = ParserOff.nodes
    /\ edges = ParserOff.edges
    /\ pc = ParserOff.pc
    /\ parseResult = LayoutOff.parseResult
    /\ positions = LayoutOff.positions
    /\ temp = LayoutOff.temp
    /\ iter = LayoutOff.iter
    /\ run = LayoutOff.run
    /\ firstResult = LayoutOff.firstResult
    /\ lpc = LayoutOff.lpc
    /\ fc = LayoutOff.fc
    /\ fcResult = LayoutOff.fcResult
    /\ bz = BezierOff.bz
    /\ bzResult = BezierOff.bzResult

SpecRendered == InitSpecRendered /\ [][NextRendered]_vars


(***************************************************************************)
(* Gestures of the rendered canvas: the claims below read the history      *)
(* variable gesture, the last mouse-down with the moves that followed it.  *)
(***************************************************************************)
\* the point of the group under the last mouse-move of the gesture
GesturePoint == screenToSVG(viewport, rect, gesture.p.x, gesture.p.y)

\* C21: after a mouse-down on the handle shown for an edge and a mouse-move
\* at p, the edge stores a control point with the id of the handle at
\* (graph-space p) / dimensions; this includes the handle of a selected edge
\* that stores no control point.
C21_HandleDragMovesControlPoint ==
    (gesture.kind = "controlPoint" /\ gesture.moved) =>
        LET cps == EdgeOfId(graphData, selectedEdgeId[1]).controlPoints
        IN  \E c \in DOMAIN cps :
                /\ cps[c].id = gesture.id
                /\ cps[c].x = RDiv(GesturePoint.x, Rat(dimensions.width))
                /\ cps[c].y = RDiv(GesturePoint.y, Rat(dimensions.height))

\* what a drag may change of a node or a control point: x and y
SameButPosition(a, b) == [a EXCEPT !.x = b.x, !.y = b.y] = b

\* the edges differ at most in the position of the control point cpId
OnlyControlPointMoved(old, new, cpId) ==
    /\ DOMAIN new = DOMAIN old
    /\ \A k \in DOMAIN old :
          /\ [new[k] EXCEPT !.controlPoints = old[k].controlPoints] = old[k]
          /\ DOMAIN new[k].controlPoints = DOMAIN old[k].controlPoints
          /\ \A c \in DOMAIN old[k].controlPoints :
                IF old[k].controlPoints[c].id = cpId
                THEN SameButPosition(old[k].controlPoints[c], new[k].controlPoints[c])
                ELSE new[k].controlPoints[c] = old[k].controlPoints[c]

\* the nodes differ at most in the position of the node nodeId
OnlyNodeMoved(old, new, nodeId) ==
    /\ DOMAIN new = DOMAIN old
    /\ \A k \in DOMAIN old :
          IF old[k].id = nodeId
          THEN SameButPosition(old[k], new[k])
          ELSE new[k] = old[k]

\* C22: the mouse-moves after a mouse-down change only what that mouse-down
\* grabbed: after a mouse-down on a handle only the x and y of that control
\* point and no node, after a mouse-down on a node only the x and y of that
\* node, whatever went before the mouse-down.
C22_MoveChangesOnlyTarget ==
    /\ gesture.kind = "controlPoint" =>
          /\ graphData.nodes = gesture.graphData.nodes
          /\ OnlyControlPointMoved(gesture.graphData.edges, graphData.edges, gesture.id)
          /\ viewport = gesture.viewport
    /\ gesture.kind = "node" =>
          /\ graphData.edges = gesture.graphData.edges
          /\ OnlyNodeMoved(gesture.graphData.nodes, graphData.nodes, gesture.id)
          /\ viewport = gesture.viewport

\* a node was grabbed and let go, an edge clicked, its handle dragged
C22_Witness ==
    /\ gesture.kind = "controlPoint"
    /\ gesture.moved
    /\ graphData.edges # gesture.graphData.edges
    /\ dragNodeOffset # ZeroOffset

\* C23: after a mouse-down on a node at p0 and mouse-moves that end at p the
\* node is where it was at the mouse-down plus (p - p0) / (scale * canvas
\* dimension), inside [0, 1] or not.
C23_NodeDragNoJump ==
    (gesture.kind = "node") =>
        LET before == NodeOfId(gesture.graphData, gesture.id)
            now    == NodeOfId(graphData, gesture.id)
        IN  /\ now.x = RAdd(before.x,
                            RDiv(Rat(gesture.p.x - gesture.p0.x),
                                 RMul(viewport.scale, Rat(dimensions.width))))
            /\ now.y = RAdd(before.y,
                            RDiv(Rat(gesture.p.y - gesture.p0.y),
                                 RMul(viewport.scale, Rat(dimensions.height))))

\* the node was dragged out of the unit square
C23_Witness ==
    /\ gesture.kind = "node"
    /\ gesture.moved
    /\ gesture.p # gesture.p0
    /\ ~RLeq(NodeOfId(graphData, gesture.id).x, Rat(1))

\* C24: after a mouse-down on the background at p0 and mouse-moves that end
\* at p the offset is the offset at the mouse-down plus (p - p0) in screen
\* pixels whatever the scale; scale and graph data are as they were, and no
\* node and no edge is selected.
C24_PanInScreenPixels ==
    (gesture.kind = "background") =>
        /\ viewport.offsetX = RAdd(gesture.viewport.offsetX, Rat(gesture.p.x - gesture.p0.x))
        /\ viewport.offsetY = RAdd(gesture.viewport.offsetY, Rat(gesture.p.y - gesture.p0.y))
        /\ viewport.scale = gesture.viewport.scale
        /\ graphData = gesture.graphData
        /\ selectedNodeId = None
        /\ selectedEdgeId = None

\* a pan of a zoomed canvas that started with an edge selected
C24_Witness ==
    /\ gesture.kind = "background"
    /\ gesture.moved
    /\ gesture.p # gesture.p0
    /\ viewport.scale # Rat(1)
    /\ \E k \in DOMAIN graphData.edges : graphData.edges[k].controlPoints # <<>>


\* a wheel event as a step
WheelStep == \E c \in Pointers, deltaY \in PointerDeltaYs : handleWheel(c[1], c[2], deltaY)

\* C25: only a wheel event and a mouse-move while panning change the
\* viewport: mouse-downs, mouse-up and mouse-leave, edge clicks, the moves of
\* a node drag or a control-point drag, and new graph data leave it alone.
C25_ViewportOnlyByWheelAndPan ==
    [][viewport' # viewport => (WheelStep \/ (isPanning /\ MouseMoveStep))]_vars

\* a node was dragged on a zoomed and panned canvas the wheel never touched
C25_Witness ==
    /\ wheels = 0
    /\ viewport \in PointerViewports \ {IdentityViewport}
    /\ gesture.kind = "node"
    /\ gesture.moved
    /\ graphData # gesture.graphData


(***************************************************************************)
(* GraphCanvas: wheel and pan handlers between renders.  The handlers are  *)
(* the closures of the last render (useCallback, lines 62-92 and 138-203): *)
(* they read the viewport and the dragStart of that render, while the      *)
(* updater they hand to setViewport gets the latest viewport.  Wheel and   *)
(* mouse-move updates are not rendered before the next event is handled    *)
(* unless the scheduler gets to run in between.  reference is the same run *)
(* with a render after every event.                                        *)
(***************************************************************************)
\* lines 73-92 with the screenToSVG of the last render
handleWheelOfLastRender(clientX, clientY, deltaY) ==
    /\ wheels < MaxWheels
    /\ events < MaxEvents
    /\ viewport' = WheelUpdate(viewport,
                               screenToSVG(closure.viewport, rect, clientX, clientY),
                               deltaY)
    /\ reference' = [reference EXCEPT !.viewport =
                        WheelUpdate(@, screenToSVG(@, rect, clientX, clientY), deltaY)]
    /\ wheels' = wheels + 1
    /\ events' = events + 1
    /\ UNCHANGED <<rect, lastWheel, graphData, dimensions, selectedNodeId,
                   selectedEdgeId, selectedControlPointId, isDragging, dragStart,
                   dragNodeOffset, isPanning, gesture, closure>>
    /\ UNCHANGED <<parserVars, layoutVars, bezierVars>>

\* lines 178-190 with the isPanning and the dragStart of the last render
handleMouseMoveOfLastRender(clientX, clientY) ==
    /\ events < MaxEvents
    /\ ~isDragging
    /\ isPanning
    /\ viewport' = PanUpdate(viewport, clientX - closure.dragStart.x,
                             clientY - closure.dragStart.y)
    /\ dragStart' = [x |-> clientX, y |-> clientY]
    /\ reference' = [viewport |-> PanUpdate(reference.viewport,
                                            clientX - reference.dragStart.x,
                                            clientY - reference.dragStart.y),
                     dragStart |-> [x |-> clientX, y |-> clientY]]
    /\ events' = events + 1
    /\ UNCHANGED <<rect, wheels, lastWheel, graphData, dimensions, selectedNodeId,
                   selectedEdgeId, selectedControlPointId, isDragging,
                   dragNodeOffset, isPanning, gesture, closure>>
    /\ UNCHANGED <<parserVars, layoutVars, bezierVars>>

\* the component function runs with the pending updates applied: screenToSVG
\* (lines 62-70), handleWheel and handleMouseMove are made anew
render ==
    /\ closure # [viewport |-> viewport, dragStart |-> dragStart]
    /\ closure' = [viewport |-> viewport, dragStart |-> dragStart]
    /\ UNCHANGED <<viewport, rect, wheels, lastWheel, pointerVars, gesture, reference>>
    /\ UNCHANGED <<parserVars, layoutVars, bezierVars>>

NextTiming ==
    \/ \E c \in Pointers, deltaY \in PointerDeltaYs :
          handleWheelOfLastRender(c[1], c[2], deltaY)
    \/ \E c \in Pointers : handleMouseMoveOfLastRender(c[1], c[2])
    \/ render

\* a mouse-down on the background at a pointer position was handled and
\* rendered (lines 128-135)
InitSpecTiming ==
    /\ viewport \in PointerViewports
    /\ rect = [left |-> 320, top |-> 0]
    /\ wheels = 0
    /\ lastWheel = None
    /\ graphData = StartGraph
    /\ dimensions = DefaultDimensions
    /\ selectedNodeId = None
    /\ selectedEdgeId = None
    /\ selectedControlPointId = None
    /\ isDragging = FALSE
    /\ dragStart \in {[x |-> c[1], y |-> c[2]] : c \in Pointers}
    /\ dragNodeOffset = ZeroOffset
    /\ isPanning = TRUE
    /\ events = 0
    /\ gesture = Untracked
    /\ closure = [viewport |-> viewport, dragStart |-> dragStart]
    /\ reference = [viewport |-> viewport, dragStart |-> dragStart]
    /\ input = ParserOff.input
    /\ mermaidText = ParserOff.mermaidText
    /\ lines = ParserOff.lines
    /\ i = ParserOff.i
    /\ nodes = ParserOff.nodes
    /\ edges = ParserOff.edges
    /\ pc = ParserOff.pc
    /\ parseResult = LayoutOff.parseResult
    /\ positions = LayoutOff.positions
    /\ temp = LayoutOff.temp
    /\ iter = LayoutOff.iter
    /\ run = LayoutOff.run
    /\ firstResult = LayoutOff.firstResult
    /\ lpc = LayoutOff.lpc
    /\ fc = LayoutOff.fc
    /\ fcResult = LayoutOff.fcResult
    /\ bz = BezierOff.bz
    /\ bzResult = BezierOff.bzResult

SpecTiming == InitSpecTiming /\ [][NextTiming]_vars

\* C26: the viewport that wheel and pan-move events leave does not depend on
\* when the component renders: handled by the handlers of an earlier render,
\* two events give the viewport they give with a render between them.
C26_RenderTimingIrrelevant == viewport = reference.viewport


\* C28: with handle mouse-downs delivered only for the handle of the selected
\* edge, a node and an edge are never selected together; so during a
\* control-point drag no node is selected and a mouse-move takes the
\* control-point branch, not the node branch.
C28_OneSelection ==
    /\ ~(selectedNodeId # None /\ selectedEdgeId # None)
    /\ gesture.kind = "controlPoint" =>
          /\ isDragging
          /\ selectedNodeId = None
          /\ selectedEdgeId # None
          /\ selectedControlPointId # None

\* the handle of edge-1 is dragged after a node was grabbed
C28_Witness ==
    /\ gesture.kind = "controlPoint"
    /\ selectedEdgeId = Some("edge-1")
    /\ selectedNodeId = None
    /\ dragNodeOffset # ZeroOffset
    /\ EdgeOfId(graphData, "edge-1").controlPoints # EdgeOfId(gesture.graphData, "edge-1").controlPoints


(***************************************************************************)
(* Claims about the graph the parser returns.                              *)
(***************************************************************************)
\* C29: when the parser returns, the ids of the returned nodes are pairwise
\* distinct and the source and the target of every returned edge are ids of
\* returned nodes.
C29_EdgesJoinDistinctNodes ==
    pc = "done" =>
        /\ \A k, j \in DOMAIN nodes : nodes[k].id = nodes[j].id => k = j
        /\ \A k \in DOMAIN edges :
              /\ MapHas(nodes, edges[k].source)
              /\ MapHas(nodes, edges[k].target)

\* the parser returned an edge between two nodes, one of them also declared
\* on a line of its own
C29_Witness ==
    /\ pc = "done"
    /\ Len(nodes) >= 2
    /\ \E k \in DOMAIN edges :
          /\ edges[k].source # edges[k].target
          /\ \E j \in DOMAIN nodes :
                /\ nodes[j].id \in {edges[k].source, edges[k].target}
                /\ nodes[j].label # nodes[j].id


(***************************************************************************)
(* autoLayoutGraph: one force computation of the pairs loop (lines         *)
(* 150-172) or of the edges loop (lines 174-196), on two positions of the  *)
(* initial circle of lines 125-133.                                        *)
(***************************************************************************)
\* Unit * <<Math.cos(angle), Math.sin(angle)>> for angle = (1 / n) * 2 * Math.PI
\* of circles with more nodes than CosSin lists
LargeCosSin == [n \in {200, 400} |-> IF n = 200 THEN <<9995, 314>> ELSE <<9999, 157>>]

\* lines 128-132: the position at <<cos, sin>> of the angle
CirclePosition(cs) ==
    [x |-> Unit \div 2 + Quot(radius * cs[1], Unit),
     y |-> Unit \div 2 + Quot(radius * cs[2], Unit)]

\* the pairs: any two nodes of a small graph (the same node twice for an
\* edge from a node to itself), and the first two nodes of a large one
ForcePairs ==
    UNION {{[n |-> n, pos1 |-> CirclePosition(CosSin[n][a]),
             pos2 |-> CirclePosition(CosSin[n][b])] : a \in 1..n, b \in 1..n} :
           n \in (DOMAIN CosSin) \ {1}}
    \cup {[n |-> n, pos1 |-> CirclePosition(<<Unit, 0>>),
           pos2 |-> CirclePosition(LargeCosSin[n])] : n \in DOMAIN LargeCosSin}

\* lines 158-160 and 182-184: dist of the pair
PairDist == Dist(fc.pos1.x - fc.pos2.x, fc.pos1.y - fc.pos2.y)

\* lines 150-172, one pass of the inner loop
RepulsivePair ==
    /\ fcResult = None
    /\ fcResult' = Some([kind |-> "repulsion", dist |-> PairDist,
                         force |-> Repulsion(OptimalDistance(fc), fc.pos1, fc.pos2)])
    /\ UNCHANGED <<parseResult, positions, temp, iter, run, firstResult, lpc, fc>>
    /\ UNCHANGED <<parserVars, canvasVars, bezierVars>>

\* lines 174-196, one pass of edges.forEach
AttractiveEdge ==
    /\ fcResult = None
    /\ fcResult' = Some([kind |-> "attraction", dist |-> PairDist,
                         force |-> Attraction(OptimalDistance(fc), fc.pos1, fc.pos2)])
    /\ UNCHANGED <<parseResult, positions, temp, iter, run, firstResult, lpc, fc>>
    /\ UNCHANGED <<parserVars, canvasVars, bezierVars>>

NextForces ==
    \/ RepulsivePair
    \/ AttractiveEdge

InitSpecForces ==
    /\ fc \in ForcePairs
    /\ fcResult = None
    /\ parseResult = LayoutOff.parseResult
    /\ positions = LayoutOff.positions
    /\ temp = LayoutOff.temp
    /\ iter = LayoutOff.iter
    /\ run = LayoutOff.run
    /\ firstResult = LayoutOff.firstResult
    /\ lpc = LayoutOff.lpc
    /\ input = ParserOff.input
    /\ mermaidText = ParserOff.mermaidText
    /\ lines = ParserOff.lines
    /\ i = ParserOff.i
    /\ nodes = ParserOff.nodes
    /\ edges = ParserOff.edges
    /\ pc = ParserOff.pc
    /\ viewport = CanvasOff.viewport
    /\ rect = CanvasOff.rect
    /\ wheels = CanvasOff.wheels
    /\ lastWheel = CanvasOff.lastWheel
    /\ graphData = CanvasOff.graphData
    /\ dimensions = CanvasOff.dimensions
    /\ selectedNodeId = CanvasOff.selectedNodeId
    /\ selectedEdgeId = CanvasOff.selectedEdgeId
    /\ selectedControlPointId = CanvasOff.selectedControlPointId
    /\ isDragging = CanvasOff.isDragging
    /\ dragStart = CanvasOff.dragStart
    /\ dragNodeOffset = CanvasOff.dragNodeOffset
    /\ isPanning = CanvasOff.isPanning
    /\ events = CanvasOff.events
    /\ gesture = CanvasOff.gesture
    /\ closure = CanvasOff.closure
    /\ reference = CanvasOff.reference
    /\ bz = BezierOff.bz
    /\ bzResult = BezierOff.bzResult

SpecForces == InitSpecForces /\ [][NextForces]_vars

\* C27: every force computation divides by a distance of at least 0.01: a
\* distance below 0.01, zero or not, is replaced by 0.01, and the repulsive
\* force is at most k * k / 0.01.
C27_DistanceFloored ==
    fcResult # None =>
        /\ fcResult[1].dist >= MinDist
        /\ fcResult[1].kind = "repulsion" =>
              Hypot(fcResult[1].force.x, fcResult[1].force.y)
                 <= (((OptimalDistance(fc) * OptimalDistance(fc)) \div Unit) * Unit) \div MinDist
====
